---- MODULE Spec2Model ----
(***************************************************************************)
(* A model of the semantic code-search engine: the vector store            *)
(* (vector_store.py), the indexer (indexer.py) and the search tools built  *)
(* on them.  A Python str is a sequence of one-character strings, so that  *)
(* concatenation, prefix tests, stripping and character scans are          *)
(* computed the way the code computes them.                                *)
(***************************************************************************)
EXTENDS Integers, Sequences, FiniteSets, TLC

VARIABLES db, table, disk, last

vars == <<db, table, disk, last>>

(***************************************************************************)
(* Bounds of the model.                                                    *)
(***************************************************************************)
MaxBatch == 2
MaxRecords == 3
MaxTopK == 2

(***************************************************************************)
(* Strings.                                                                *)
(***************************************************************************)
None == "None"

startswith(s, prefix) ==
    /\ Len(prefix) <= Len(s)
    /\ SubSeq(s, 1, Len(prefix)) = prefix

\* the characters str.strip() removes: those str.isspace() accepts. The
\* first row is space, newline, tab, carriage return and form feed; the
\* second is written raw: U+000B, U+001C..U+001F, U+0085, U+00A0, U+1680.
\* The spaces from U+2000 on (U+2000..U+200A, U+2028, U+2029, U+202F, U+205F,
\* U+3000) cannot be written in a string of this language and no text of
\* the model holds one.
Whitespace ==
    {" ", "\n", "\t", "\r", "\f",
     "", "", "", "", "", "", " ", " "}

\* s.lstrip(): s from its first character that is not whitespace
lstrip(s) ==
    LET kept == {i \in 1..Len(s) : s[i] \notin Whitespace}
    IN IF kept = {} THEN <<>>
       ELSE SubSeq(s, CHOOSE i \in kept : \A j \in kept : i <= j, Len(s))

\* s.rstrip(): s up to its last character that is not whitespace
rstrip(s) ==
    LET kept == {i \in 1..Len(s) : s[i] \notin Whitespace}
    IN IF kept = {} THEN <<>>
       ELSE SubSeq(s, 1, CHOOSE i \in kept : \A j \in kept : j <= i)

strip(s) == rstrip(lstrip(s))

\* the index of the last occurrence of character c in s, 0 when there is none
rfind(s, c) ==
    LET at == {i \in 1..Len(s) : s[i] = c}
    IN IF at = {} THEN 0 ELSE CHOOSE i \in at : \A j \in at : j <= i

\* Path(p).name: the last component of the path
PathName(p) ==
    LET q == IF Len(p) > 1 /\ p[Len(p)] = "/" THEN SubSeq(p, 1, Len(p) - 1) ELSE p
    IN SubSeq(q, rfind(q, "/") + 1, Len(q))

\* the printable ASCII characters, in the order of their codes (32..126);
\* code 96 is named, not written
AsciiChars ==
    <<" ", "!", "\"", "#", "$", "%", "&", "'", "(", ")", "*", "+", ",", "-",
    ".", "/", "0", "1", "2", "3", "4", "5", "6", "7", "8", "9", ":", ";",
    "<", "=", ">", "?", "@", "A", "B", "C", "D", "E", "F", "G", "H", "I",
    "J", "K", "L", "M", "N", "O", "P", "Q", "R", "S", "T", "U", "V", "W",
    "X", "Y", "Z", "[", "\\", "]", "^", "_", "grave", "a", "b", "c", "d", "e",
    "f", "g", "h", "i", "j", "k", "l", "m", "n", "o", "p", "q", "r", "s",
    "t", "u", "v", "w", "x", "y", "z", "{", "|", "}", "~">>

\* ord(c)
CharCode(c) ==
    IF c = "\t" THEN 9
    ELSE IF c = "\n" THEN 10
    ELSE IF c = "\r" THEN 13
    ELSE 31 + (CHOOSE i \in 1..Len(AsciiChars) : AsciiChars[i] = c)

\* str.lower() of one character
LowerChar(c) ==
    IF CharCode(c) >= 65 /\ CharCode(c) <= 90
    THEN AsciiChars[CharCode(c) + 32 - 31]
    ELSE c

lower(s) == [i \in 1..Len(s) |-> LowerChar(s[i])]

\* s < t for two str, by code points
RECURSIVE StrLess(_, _)
StrLess(s, t) ==
    IF t = <<>> THEN FALSE
    ELSE IF s = <<>> THEN TRUE
    ELSE IF Head(s) # Head(t) THEN CharCode(Head(s)) < CharCode(Head(t))
    ELSE StrLess(Tail(s), Tail(t))

\* s.split(c) for a one-character separator: the pieces between the
\* occurrences of c, the beginning and the end of s
split(s, c) ==
    LET at == {i \in 1..Len(s) : s[i] = c}
        n == Cardinality(at)
        pos == [k \in 0..(n + 1) |->
                   IF k = 0 THEN 0
                   ELSE IF k = n + 1 THEN Len(s) + 1
                   ELSE CHOOSE i \in at : Cardinality({j \in at : j < i}) = k - 1]
    IN [k \in 1..(n + 1) |-> SubSeq(s, pos[k - 1] + 1, pos[k] - 1)]

\* sep.join(parts)
RECURSIVE join(_, _)
join(parts, sep) ==
    IF parts = <<>> THEN <<>>
    ELSE IF Len(parts) = 1 THEN parts[1]
    ELSE parts[1] \o sep \o join(Tail(parts), sep)

\* s.count(c)
count(s, c) == Cardinality({k \in 1..Len(s) : s[k] = c})

(***************************************************************************)
(* Paths (pathlib, POSIX flavour).                                         *)
(***************************************************************************)
\* the components of an absolute path, without the root "/"
PathParts(p) == SelectSeq(split(p, "/"), LAMBDA part : part # <<>>)

\* the names of the directories item.parents goes through, the root's
\* (empty) name left out
ParentNames(p) ==
    LET parts == PathParts(p)
    IN {parts[i] : i \in 1..(Len(parts) - 1)}

\* Path(p).suffix
PathSuffix(p) ==
    LET name == PathName(p)
        k == rfind(name, ".")
    IN IF 1 < k /\ k < Len(name) THEN SubSeq(name, k, Len(name)) ELSE <<>>

\* whether p.relative_to(root) succeeds: root's components begin p's
IsRelativeTo(p, root) ==
    LET pp == PathParts(p)
        rp == PathParts(root)
    IN Len(rp) <= Len(pp) /\ SubSeq(pp, 1, Len(rp)) = rp

\* p < q for two paths: their components are compared in order
RECURSIVE PartsLess(_, _)
PartsLess(pp, qq) ==
    IF qq = <<>> THEN FALSE
    ELSE IF pp = <<>> THEN TRUE
    ELSE IF Head(pp) # Head(qq) THEN StrLess(Head(pp), Head(qq))
    ELSE PartsLess(Tail(pp), Tail(qq))

PathLess(p, q) == PartsLess(PathParts(p), PathParts(q))

\* sorted(paths)
RECURSIVE SortPaths(_)
SortPaths(paths) ==
    IF paths = {} THEN <<>>
    ELSE LET least == CHOOSE p \in paths : \A q \in paths \ {p} : PathLess(p, q)
         IN <<least>> \o SortPaths(paths \ {least})

(***************************************************************************)
(* The embedding model and the fingerprint.                                *)
(***************************************************************************)
EmbeddingDim == 2

\* model.encode(text): a deterministic vector of EmbeddingDim components
_generate_embedding(text) ==
    [i \in 1..EmbeddingDim |->
        (i * Len(text) + Cardinality({k \in 1..Len(text) : text[k] = ":"})) % 3]

\* sha256 is taken to be injective: the digest is the hashed data itself
_compute_hash(content, file_path) == file_path \o <<":">> \o content

RECURSIVE SumSq(_, _, _)
SumSq(v, w, i) ==
    IF i = 0 THEN 0 ELSE (v[i] - w[i]) * (v[i] - w[i]) + SumSq(v, w, i - 1)

\* the _distance column of a nearest-neighbour scan (squared L2)
Distance(v, w) == SumSq(v, w, Len(v))

(***************************************************************************)
(* The store: one collection of records in the database (db), and the      *)
(* store object's handle on it (table, None until the collection exists).  *)
(***************************************************************************)
\* the database holds no collection, or one collection with its rows in order
NoTable == [present |-> FALSE, rows |-> <<>>]

TableOf(rows) == [present |-> TRUE, rows |-> rows]
Open == "open"

NoError == "ok"
EmptyChunksError == "ValueError: Chunks list cannot be empty"
EmptyQueryError == "ValueError: Query cannot be empty"
NotIndexedError == "ValueError: No data indexed yet. Run indexer.py first."

Rows(dbv) == dbv.rows

Range(s) == {s[i] : i \in 1..Len(s)}

\* a plausible slip: only the content of a chunk is tested
ValidChunk_ContentOnly(chunk) == chunk.content # <<>>

\* `if not content or not file_path: continue`
ValidChunk(chunk) == chunk.content # <<>> /\ chunk.file_path # <<>>

MakeRecord(chunk) ==
    [vector |-> _generate_embedding(chunk.content),
     content |-> chunk.content,
     source |-> chunk.source,
     file_path |-> chunk.file_path,
     chunk_hash |-> _compute_hash(chunk.content, chunk.file_path),
     start_line |-> chunk.start_line,
     end_line |-> chunk.end_line]

RECURSIVE BuildRecords(_)
BuildRecords(chunks) ==
    IF chunks = <<>> THEN <<>>
    ELSE IF ValidChunk(Head(chunks))
         THEN <<MakeRecord(Head(chunks))>> \o BuildRecords(Tail(chunks))
         ELSE BuildRecords(Tail(chunks))

\* a plausible slip: the rows are matched by the beginning of their path
remove_chunks_by_file_ByPrefix(dbv, tbl, file_path) ==
    IF tbl = None
    THEN [db |-> dbv, table |-> tbl, ret |-> 0]
    ELSE LET OtherFile(r) == ~startswith(r.file_path, file_path)
             kept == SelectSeq(Rows(dbv), OtherFile)
         IN [db |-> TableOf(kept), table |-> Open,
             ret |-> Len(Rows(dbv)) - Len(kept)]

\* a plausible slip: the collection is not rebuilt when no row is kept
remove_chunks_by_file_DropsEmptied(dbv, tbl, file_path) ==
    IF tbl = None
    THEN [db |-> dbv, table |-> tbl, ret |-> 0]
    ELSE LET OtherFile(r) == r.file_path # file_path
             kept == SelectSeq(Rows(dbv), OtherFile)
         IN IF kept = <<>>
            THEN [db |-> NoTable, table |-> None, ret |-> Len(Rows(dbv))]
            ELSE [db |-> TableOf(kept), table |-> Open,
                  ret |-> Len(Rows(dbv)) - Len(kept)]

\* remove_chunks_by_file: scan the collection, keep the rows of other files,
\* rebuild the collection from them; returns the number of rows removed
remove_chunks_by_file(dbv, tbl, file_path) ==
    IF tbl = None
    THEN [db |-> dbv, table |-> tbl, ret |-> 0]
    ELSE LET OtherFile(r) == r.file_path # file_path
             kept == SelectSeq(Rows(dbv), OtherFile)
         IN [db |-> TableOf(kept), table |-> Open,
             ret |-> Len(Rows(dbv)) - Len(kept)]

\* the file paths of the batch's records, each once, in the order in which
\* they are first seen
RECURSIVE FirstSeenFiles(_, _)
FirstSeenFiles(records, seen) ==
    IF records = <<>> THEN <<>>
    ELSE IF Head(records).file_path \in seen
         THEN FirstSeenFiles(Tail(records), seen)
         ELSE <<Head(records).file_path>> \o
              FirstSeenFiles(Tail(records), seen \cup {Head(records).file_path})

RECURSIVE PurgeFiles(_, _, _)
PurgeFiles(dbv, tbl, files) ==
    IF files = <<>> THEN dbv
    ELSE PurgeFiles(remove_chunks_by_file(dbv, tbl, Head(files)).db, tbl, Tail(files))

\* update_existing: the stored rows of every file of the batch are purged,
\* once per file, when the file is first seen among the batch's valid chunks
PurgeExisting(dbv, tbl, records) ==
    PurgeFiles(dbv, tbl, FirstSeenFiles(records, {}))

\* what the engine does during one call of the store. NoError: every
\* operation succeeds. EngineFailure, EngineValueError: a scan of the
\* collection raises. EngineWriteFailure: create_table and table.add raise.
\* A scan through a handle on a collection that was dropped raises whatever
\* the engine's condition.
EngineFailure == "Exception: the engine cannot read the collection"
EngineValueError == "ValueError: the engine rejects the scan"
EngineWriteFailure == "Exception: the engine cannot write the collection"
TableExistsError == "ValueError: Table 'code_chunks' already exists"

\* whether table.to_pandas() through the handle tbl returns the rows
CanRead(dbv, tbl, engine) ==
    tbl # None /\ dbv.present /\ engine \notin {EngineFailure, EngineValueError}

\* the loop that fills existing_hashes: a scan that raises leaves the set
\* empty (`except Exception: pass`)
ExistingHashes(dbv, tbl, engine) ==
    IF CanRead(dbv, tbl, engine)
    THEN {r.chunk_hash : r \in Range(Rows(dbv))}
    ELSE {}

\* `[r for r in records if r["chunk_hash"] not in existing_hashes]`
NewRecords(existing_hashes, records) ==
    LET IsNew(r) == r.chunk_hash \notin existing_hashes
    IN SelectSeq(records, IsNew)

\* `if new_records: self.table.add(new_records)` and the number returned
AppendRecords(dbv, tbl, new_records, engine) ==
    IF new_records = <<>>
    THEN [db |-> dbv, table |-> tbl, ret |-> 0, err |-> NoError]
    ELSE IF engine = EngineWriteFailure
    THEN [db |-> dbv, table |-> tbl, ret |-> 0, err |-> engine]
    ELSE [db |-> TableOf(Rows(dbv) \o new_records), table |-> Open,
          ret |-> Len(new_records), err |-> NoError]

\* a plausible slip: the append branch reports the batch's size
InsertRecords_ReturnsBatchCount(dbv, tbl, records, engine) ==
    IF tbl = None
    THEN IF dbv.present
         THEN [db |-> dbv, table |-> tbl, ret |-> 0, err |-> TableExistsError]
         ELSE IF engine = EngineWriteFailure
         THEN [db |-> dbv, table |-> tbl, ret |-> 0, err |-> engine]
         ELSE [db |-> TableOf(records), table |-> Open, ret |-> Len(records),
               err |-> NoError]
    ELSE LET new_records == NewRecords(ExistingHashes(dbv, tbl, engine), records)
         IN IF new_records = <<>>
            THEN [db |-> dbv, table |-> tbl, ret |-> Len(records), err |-> NoError]
            ELSE IF engine = EngineWriteFailure
            THEN [db |-> dbv, table |-> tbl, ret |-> 0, err |-> engine]
            ELSE [db |-> TableOf(Rows(dbv) \o new_records), table |-> Open,
                  ret |-> Len(records), err |-> NoError]

\* "Create or append to table". Without a handle the collection is created
\* from the whole batch, which the engine refuses when the collection exists
\* already. With a handle the records whose hash is not among the hashes
\* read are appended, if there is any; ret is the number returned and err the
\* exception that leaves add_chunks
InsertRecords(dbv, tbl, records, engine) ==
    IF tbl = None
    THEN IF dbv.present
         THEN [db |-> dbv, table |-> tbl, ret |-> 0, err |-> TableExistsError]
         ELSE IF engine = EngineWriteFailure
         THEN [db |-> dbv, table |-> tbl, ret |-> 0, err |-> engine]
         ELSE [db |-> TableOf(records), table |-> Open, ret |-> Len(records),
               err |-> NoError]
    ELSE AppendRecords(dbv, tbl,
                       NewRecords(ExistingHashes(dbv, tbl, engine), records),
                       engine)

\* a plausible slip: `if not records: return 0` is missing
ProcessChunks_NoEmptyRecordsCheck(dbv, tbl, chunks, engine) ==
    LET records == BuildRecords(chunks)
        out == InsertRecords(dbv, tbl, records, engine)
    IN [db |-> out.db, table |-> out.table, ret |-> out.ret, err |-> out.err,
        embedded |-> [i \in 1..Len(records) |-> records[i].content]]

\* add_chunks once the list is known not to be empty: every valid chunk is
\* embedded, then the records are inserted
ProcessChunks(dbv, tbl, chunks, engine) ==
    LET records == BuildRecords(chunks)
        embedded == [i \in 1..Len(records) |-> records[i].content]
        out == InsertRecords(dbv, tbl, records, engine)
    IN IF records = <<>>
       THEN [db |-> dbv, table |-> tbl, ret |-> 0, err |-> NoError,
             embedded |-> embedded]
       ELSE [db |-> out.db, table |-> out.table, ret |-> out.ret,
             err |-> out.err, embedded |-> embedded]

\* a plausible slip: the check of the empty list is missing
add_chunks_NoEmptyCheck(dbv, tbl, chunks, engine) ==
    ProcessChunks(dbv, tbl, chunks, engine)

\* VectorStore.add_chunks(chunks) of src/vector_store.py
add_chunks(dbv, tbl, chunks, engine) ==
    IF chunks = <<>>
    THEN [db |-> dbv, table |-> tbl, ret |-> 0, err |-> EmptyChunksError,
          embedded |-> <<>>]
    ELSE ProcessChunks(dbv, tbl, chunks, engine)

\* add_chunks(chunks, update_existing) of the store the indexer imports: with
\* update_existing the stored rows of the batch's files are purged first,
\* then the batch is added as add_chunks(chunks) adds it; purged names the
\* files purged, in order, and purged_rows the number of rows they lost
add_chunks_update_existing(dbv, tbl, chunks, update_existing, engine) ==
    LET records == BuildRecords(chunks)
        purged == IF update_existing THEN PurgeExisting(dbv, tbl, records) ELSE dbv
        out == add_chunks(purged, tbl, chunks, engine)
    IN [db |-> out.db, table |-> out.table, ret |-> out.ret, err |-> out.err,
        embedded |-> out.embedded,
        purged |-> IF update_existing THEN FirstSeenFiles(records, {}) ELSE <<>>,
        purged_rows |-> Len(Rows(dbv)) - Len(Rows(purged))]

\* the scans of the row numbers in `remaining`, nearest first and `limit` rows at
\* most; rows at equal distance come in any order
RECURSIVE NearestFrom(_, _, _)
NearestFrom(d, remaining, limit) ==
    IF limit = 0 \/ remaining = {} THEN {<<>>}
    ELSE LET nearest == {i \in remaining : \A j \in remaining : d[i] <= d[j]}
         IN UNION {{<<i>> \o t : t \in NearestFrom(d, remaining \ {i}, limit - 1)} :
                      i \in nearest}

\* table.search(query_vector).limit(top_k).to_pandas(): the limit nearest
\* rows, nearest first
NearestNeighbors(rows, query_vector, limit) ==
    {[i \in 1..Len(s) |-> rows[s[i]]] :
        s \in NearestFrom([i \in 1..Len(rows) |->
                               Distance(rows[i].vector, query_vector)],
                          1..Len(rows), limit)}

FormatMatch(row, query_vector) ==
    [content |-> row.content,
     source |-> row.source,
     file_path |-> row.file_path,
     score |-> Distance(row.vector, query_vector),
     start_line |-> row.start_line,
     end_line |-> row.end_line]

Reverse(s) == [i \in 1..Len(s) |-> s[Len(s) + 1 - i]]

\* a plausible slip: the matches are returned farthest first
FormatMatches_Descending(results, query_vector, top_k, filter_path) ==
    LET Passes(row) == ~(filter_path # <<>> /\ ~startswith(row.file_path, filter_path))
        kept == SelectSeq(results, Passes)
        matches == [i \in 1..Len(kept) |-> FormatMatch(kept[i], query_vector)]
    IN Reverse(SubSeq(matches, 1, IF top_k < Len(matches) THEN top_k ELSE Len(matches)))

\* the loop over the scan's rows and the final `matches[:top_k]`
FormatMatches(results, query_vector, top_k, filter_path) ==
    LET Passes(row) == ~(filter_path # <<>> /\ ~startswith(row.file_path, filter_path))
        kept == SelectSeq(results, Passes)
        matches == [i \in 1..Len(kept) |-> FormatMatch(kept[i], query_vector)]
    IN SubSeq(matches, 1, IF top_k < Len(matches) THEN top_k ELSE Len(matches))

\* a plausible slip: the check of the table is missing
search_NoTableCheck(dbv, tbl, query, top_k, filter_path, scanned) ==
    IF query = <<>>
    THEN [matches |-> <<>>, err |-> EmptyQueryError, embedded |-> <<>>, scans |-> 0]
    ELSE [matches |-> FormatMatches(scanned, _generate_embedding(query),
                                    top_k, filter_path),
          err |-> NoError, embedded |-> <<query>>, scans |-> 1]

\* a plausible slip: the table is checked before the query
search_TableCheckFirst(dbv, tbl, query, top_k, filter_path, scanned) ==
    IF tbl = None
    THEN [matches |-> <<>>, err |-> NotIndexedError, embedded |-> <<>>, scans |-> 0]
    ELSE IF query = <<>>
    THEN [matches |-> <<>>, err |-> EmptyQueryError, embedded |-> <<>>, scans |-> 0]
    ELSE [matches |-> FormatMatches(scanned, _generate_embedding(query),
                                    top_k, filter_path),
          err |-> NoError, embedded |-> <<query>>, scans |-> 1]

\* search, given the rows the nearest-neighbour scan returns
search(dbv, tbl, query, top_k, filter_path, scanned) ==
    IF query = <<>>
    THEN [matches |-> <<>>, err |-> EmptyQueryError, embedded |-> <<>>, scans |-> 0]
    ELSE IF tbl = None
    THEN [matches |-> <<>>, err |-> NotIndexedError, embedded |-> <<>>, scans |-> 0]
    ELSE [matches |-> FormatMatches(scanned, _generate_embedding(query),
                                    top_k, filter_path),
          err |-> NoError, embedded |-> <<query>>, scans |-> 1]

\* a plausible slip: the scan is not limited, the limit is applied after the filter
Scans_OverFetch(dbv, tbl, query, top_k) ==
    IF query = <<>> \/ tbl = None THEN {<<>>}
    ELSE NearestNeighbors(Rows(dbv), _generate_embedding(query), Len(Rows(dbv)))

\* the scans search can be given: none is issued when search raises
Scans(dbv, tbl, query, top_k) ==
    IF query = <<>> \/ tbl = None THEN {<<>>}
    ELSE NearestNeighbors(Rows(dbv), _generate_embedding(query), top_k)

\* a plausible slip: the collection is dropped and the handle is kept
clear_KeepsHandle(dbv, tbl) ==
    IF ~dbv.present
    THEN [db |-> dbv, table |-> tbl, warning |-> TRUE]
    ELSE [db |-> NoTable, table |-> tbl, warning |-> FALSE]

\* clear: drop_table raises when there is no collection, which is caught
\* and reported by a printed warning
clear(dbv, tbl) ==
    IF ~dbv.present
    THEN [db |-> dbv, table |-> tbl, warning |-> TRUE]
    ELSE [db |-> NoTable, table |-> None, warning |-> FALSE]

\* a plausible slip: the rows are counted where the files should be
get_stats_CountsRows(dbv, tbl, engine) ==
    IF tbl = None
    THEN [total_chunks |-> 0, model |-> EmbeddingDim]
    ELSE IF CanRead(dbv, tbl, engine)
    THEN [total_chunks |-> Len(Rows(dbv)),
          unique_files |-> Len(Rows(dbv)),
          embedding_dim |-> EmbeddingDim]
    ELSE [total_chunks |-> 0,
          error |-> IF engine = EngineValueError THEN engine ELSE EngineFailure]

\* get_stats: without a handle the count 0 and the model's dimension; with
\* one the counts of the rows read, or the count 0 and the message of the
\* exception when the scan raises
get_stats(dbv, tbl, engine) ==
    IF tbl = None
    THEN [total_chunks |-> 0, model |-> EmbeddingDim]
    ELSE IF CanRead(dbv, tbl, engine)
    THEN [total_chunks |-> Len(Rows(dbv)),
          unique_files |-> Cardinality({r.file_path : r \in Range(Rows(dbv))}),
          embedding_dim |-> EmbeddingDim]
    ELSE [total_chunks |-> 0,
          error |-> IF engine = EngineValueError THEN engine ELSE EngineFailure]

(***************************************************************************)
(* The indexer: the chunkers.                                              *)
(***************************************************************************)
SUPPORTED_EXTENSIONS == {<<".", "c", "s">>, <<".", "m", "d">>, <<".", "t", "x", "t">>}

SKIP_DIRS ==
    {<<"b", "i", "n">>,
     <<"o", "b", "j">>,
     <<"n", "o", "d", "e", "_", "m", "o", "d", "u", "l", "e", "s">>,
     <<".", "g", "i", "t">>,
     <<".", "v", "s">>,
     <<".", "v", "s", "c", "o", "d", "e">>,
     <<".", "i", "d", "e", "a">>,
     <<"p", "a", "c", "k", "a", "g", "e", "s">>,
     <<"_", "_", "p", "y", "c", "a", "c", "h", "e", "_", "_">>,
     <<".", "g", "o", "d", "o", "t">>,
     <<".", "i", "m", "p", "o", "r", "t">>,
     <<".", "m", "o", "n", "o">>}

MIN_CHUNK_CHARS == 50
MIN_CHUNK_LINES == 5

NewChunk(content, file_path, start_line, end_line) ==
    [content |-> content,
     source |-> PathName(file_path),
     file_path |-> file_path,
     start_line |-> start_line,
     end_line |-> end_line]

\* content.split("\n\n"): the separators are found from the left
RECURSIVE SplitParagraphs(_)
SplitParagraphs(s) ==
    LET seps == {k \in 1..(Len(s) - 1) : s[k] = "\n" /\ s[k + 1] = "\n"}
    IN IF seps = {} THEN <<s>>
       ELSE LET k == CHOOSE x \in seps : \A y \in seps : x <= y
            IN <<SubSeq(s, 1, k - 1)>> \o SplitParagraphs(SubSeq(s, k + 2, Len(s)))

\* a plausible slip: the line floor of the code chunks is applied to prose
RECURSIVE ChunkTextLoop_LineFloor(_, _, _, _, _)
ChunkTextLoop_LineFloor(paragraphs, i, line_number, chunks, file_path) ==
    IF i > Len(paragraphs) THEN chunks
    ELSE LET para == strip(paragraphs[i])
             num_lines == count(para, "\n") + 1
         IN IF Len(para) >= MIN_CHUNK_CHARS /\ num_lines >= MIN_CHUNK_LINES
            THEN ChunkTextLoop_LineFloor(paragraphs, i + 1, line_number + num_lines + 2,
                     Append(chunks, NewChunk(para, file_path, line_number,
                                             line_number + num_lines - 1)),
                     file_path)
            ELSE ChunkTextLoop_LineFloor(paragraphs, i + 1, line_number + num_lines + 2,
                     chunks, file_path)

\* a plausible slip: the line counter is not advanced
RECURSIVE ChunkTextLoop_CounterStuck(_, _, _, _, _)
ChunkTextLoop_CounterStuck(paragraphs, i, line_number, chunks, file_path) ==
    IF i > Len(paragraphs) THEN chunks
    ELSE LET para == strip(paragraphs[i])
             num_lines == count(para, "\n") + 1
         IN IF Len(para) >= MIN_CHUNK_CHARS
            THEN ChunkTextLoop_CounterStuck(paragraphs, i + 1, line_number,
                     Append(chunks, NewChunk(para, file_path, line_number,
                                             line_number + num_lines - 1)),
                     file_path)
            ELSE ChunkTextLoop_CounterStuck(paragraphs, i + 1, line_number,
                     chunks, file_path)

\* the loop of _chunk_text over the paragraphs from number i on
RECURSIVE ChunkTextLoop(_, _, _, _, _)
ChunkTextLoop(paragraphs, i, line_number, chunks, file_path) ==
    IF i > Len(paragraphs) THEN chunks
    ELSE LET para == strip(paragraphs[i])
             num_lines == count(para, "\n") + 1
         IN IF Len(para) >= MIN_CHUNK_CHARS
            THEN ChunkTextLoop(paragraphs, i + 1, line_number + num_lines + 2,
                     Append(chunks, NewChunk(para, file_path, line_number,
                                             line_number + num_lines - 1)),
                     file_path)
            ELSE ChunkTextLoop(paragraphs, i + 1, line_number + num_lines + 2,
                     chunks, file_path)

_chunk_text(content, file_path) ==
    ChunkTextLoop(SplitParagraphs(content), 1, 1, <<>>, file_path)

\* a plausible slip: only the characters are counted
MeetsMinimum_CharsOnly(current_chunk) ==
    Len(strip(join(current_chunk, <<"\n">>))) >= MIN_CHUNK_CHARS

\* the candidate chunk meets the minimum requirements
MeetsMinimum(current_chunk) ==
    /\ Len(strip(join(current_chunk, <<"\n">>))) >= MIN_CHUNK_CHARS
    /\ Len(current_chunk) >= MIN_CHUNK_LINES

\* the loop of chunk_code over the lines from number line_number on, and
\* the flush of what is left after the last line
RECURSIVE ChunkCodeLoop(_, _, _, _, _, _, _)
ChunkCodeLoop(lines, line_number, current_chunk, chunk_start_line, brace_depth, chunks, file_path) ==
    IF line_number > Len(lines)
    THEN IF current_chunk # <<>> /\ MeetsMinimum(current_chunk)
         THEN Append(chunks, NewChunk(strip(join(current_chunk, <<"\n">>)),
                                      file_path, chunk_start_line, line_number))
         ELSE chunks
    ELSE LET line == lines[line_number]
             appended == Append(current_chunk, line)
             depth == brace_depth + count(line, "{") - count(line, "}")
         IN IF depth = 0
            THEN ChunkCodeLoop(lines, line_number + 1, <<>>, line_number + 1,
                     depth,
                     IF MeetsMinimum(appended)
                     THEN Append(chunks, NewChunk(strip(join(appended, <<"\n">>)),
                                     file_path, chunk_start_line, line_number))
                     ELSE chunks,
                     file_path)
            ELSE ChunkCodeLoop(lines, line_number + 1, appended, chunk_start_line,
                     depth, chunks, file_path)

chunk_code(content, file_path) ==
    IF lower(PathSuffix(file_path)) \in {<<".", "m", "d">>, <<".", "t", "x", "t">>}
    THEN _chunk_text(content, file_path)
    ELSE ChunkCodeLoop(split(content, "\n"), 1, <<>>, 1, 0, <<>>, file_path)

(***************************************************************************)
(* The indexer: the file tree and the reconciliation.                      *)
(***************************************************************************)
\* what the disk holds at a path: nothing, a file that cannot be read, or a
\* file with its text
NoFile == [kind |-> "none", content |-> <<>>]
Unreadable == [kind |-> "unreadable", content |-> <<>>]
FileOf(content) == [kind |-> "file", content |-> content]

\* the file tree: two root directories, the name of one beginning the name
\* of the other, and the files that can exist below them
Root_r == <<"/", "r">>
Root_r2 == <<"/", "r", "2">>
File_a == <<"/", "r", "/", "a", ".", "c", "s">>
File_b == <<"/", "r", "/", "b", ".", "m", "d">>
File_c == <<"/", "r", "2", "/", "c", ".", "c", "s">>

Roots == {Root_r, Root_r2}

FilePaths == {File_a, File_b, File_c}

Rep(c, n) == [i \in 1..n |-> c]

\* a declaration of five lines and 65 characters
BlockA ==
    <<"c", "l", "a", "s", "s", " ", "A", " ", "{", "\n">> \o Rep("x", 25) \o <<"\n">>
        \o Rep("y", 25) \o <<"\n", "z", "\n", "}">>

BlockB ==
    <<"c", "l", "a", "s", "s", " ", "B", " ", "{", "\n">> \o Rep("x", 25) \o <<"\n">>
        \o Rep("y", 25) \o <<"\n", "z", "\n", "}">>

\* two declarations with a blank line between them
TwoBlocks == BlockA \o <<"\n", "\n">> \o BlockB

\* a text below the minimum size
Tiny == <<"i", "n", "t", " ", "x", ";">>

FileTexts == {Tiny, BlockA, TwoBlocks}

\* what each path of the tree can hold
FileStates(p) ==
    IF p = File_a
    THEN {NoFile, Unreadable, FileOf(Tiny), FileOf(BlockA), FileOf(TwoBlocks)}
    ELSE IF p = File_b
    THEN {NoFile, Unreadable, FileOf(Tiny), FileOf(TwoBlocks)}
    ELSE {NoFile, FileOf(BlockA)}

\* chunk_code on the texts and the paths of the file tree, computed once
ChunksOfFile == [p \in FilePaths |-> [text \in FileTexts |-> chunk_code(text, p)]]

should_skip_directory(name) == name \in SKIP_DIRS

is_supported_file(file_path) == lower(PathSuffix(file_path)) \in SUPPORTED_EXTENSIONS

\* rglob("*") from the root: the files below it
IsBelow(p, root) ==
    IsRelativeTo(p, root) /\ Len(PathParts(p)) > Len(PathParts(root))

find_files(dsk, root) ==
    SortPaths({p \in DOMAIN dsk :
                 /\ dsk[p].kind # "none"
                 /\ IsBelow(p, root)
                 /\ ~\E name \in ParentNames(p) : should_skip_directory(name)
                 /\ is_supported_file(p)})

\* a plausible slip: a file without text is handed to the chunker as well
process_file_NoEmptyCheck(dsk, file_path) ==
    IF dsk[file_path].kind \in {"unreadable", "none"}
    THEN [chunks |-> <<>>, failed |-> 1, chunked |-> FALSE]
    ELSE [chunks |-> chunk_code(dsk[file_path].content, file_path),
          failed |-> 0, chunked |-> TRUE]

\* process_file: the chunks of one file, whether reading it failed (the file
\* cannot be read, or the path holds no file) and whether chunk_code was
\* called
process_file(dsk, file_path) ==
    IF dsk[file_path].kind \in {"unreadable", "none"}
    THEN [chunks |-> <<>>, failed |-> 1, chunked |-> FALSE]
    ELSE IF strip(dsk[file_path].content) = <<>>
    THEN [chunks |-> <<>>, failed |-> 0, chunked |-> FALSE]
    ELSE LET content == dsk[file_path].content
         IN [chunks |-> IF file_path \in FilePaths /\ content \in FileTexts
                        THEN ChunksOfFile[file_path][content]
                        ELSE chunk_code(content, file_path),
             failed |-> 0, chunked |-> TRUE]

\* the counters and the chunks after one more file gave `got`
CountFile(acc, got) ==
    [all_chunks |-> acc.all_chunks \o got.chunks,
     files_processed |->
         acc.files_processed + (IF got.chunks # <<>> THEN 1 ELSE 0),
     files_skipped |->
         acc.files_skipped + got.failed + (IF got.chunks # <<>> THEN 0 ELSE 1)]

\* a plausible slip: the loop over the files ends at the first file that
\* cannot be read
RECURSIVE ProcessFiles_StopsAtFailure(_, _, _, _)
ProcessFiles_StopsAtFailure(dsk, files, i, acc) ==
    IF i > Len(files) \/ process_file(dsk, files[i]).failed = 1 THEN acc
    ELSE ProcessFiles_StopsAtFailure(dsk, files, i + 1,
                      CountFile(acc, process_file(dsk, files[i])))

\* the loop of index over the files from number i on
RECURSIVE ProcessFiles(_, _, _, _)
ProcessFiles(dsk, files, i, acc) ==
    IF i > Len(files) THEN acc
    ELSE ProcessFiles(dsk, files, i + 1,
                      CountFile(acc, process_file(dsk, files[i])))

\* the stored file paths that begin with the root's text and are not on disk
DeletedFiles(dbv, current_files, root) ==
    {fp \in {r.file_path : r \in Range(Rows(dbv))} :
        startswith(fp, root) /\ fp \notin Range(current_files)}

\* the loop of _remove_deleted_files over the deleted files in the order
\* given; relative_to raises for a path that is not below the root, which
\* ends the loop
RECURSIVE RemoveDeletedLoop(_, _, _, _, _)
RemoveDeletedLoop(dbv, tbl, order, root, removed) ==
    IF order = <<>> \/ ~IsRelativeTo(Head(order), root)
    THEN [db |-> dbv, table |-> tbl, removed |-> removed]
    ELSE LET out == remove_chunks_by_file(dbv, tbl, Head(order))
         IN RemoveDeletedLoop(out.db, out.table, Tail(order), root,
                              Append(removed, Head(order)))

\* _remove_deleted_files, the engine answering every call made on a
\* collection that exists: nothing is done when get_stats counts no chunk
_remove_deleted_files(dbv, tbl, current_files, root, order) ==
    IF get_stats(dbv, tbl, NoError).total_chunks = 0
    THEN [db |-> dbv, table |-> tbl, removed |-> <<>>]
    ELSE RemoveDeletedLoop(dbv, tbl, order, root, <<>>)

\* the orders in which a set can be iterated
Orders(S) ==
    {order \in [1..Cardinality(S) -> S] :
        \A i, j \in 1..Cardinality(S) : i # j => order[i] # order[j]}

\* the iteration orders of the deleted files that index can meet
DeletionOrders(dbv, tbl, dsk, root, remove_deleted) ==
    IF remove_deleted /\ find_files(dsk, root) # <<>>
       /\ get_stats(dbv, tbl, NoError).total_chunks # 0
    THEN Orders(DeletedFiles(dbv, find_files(dsk, root), root))
    ELSE {<<>>}

\* the calls index makes on the store: what is called, for which file or
\* with which chunks (by content)
RemoveCalls(removed) ==
    [i \in 1..Len(removed) |->
        [op |-> "remove_chunks_by_file", file_path |-> removed[i],
         chunks |-> <<>>, update_existing |-> FALSE]]

AddCall(all_chunks) ==
    [op |-> "add_chunks", file_path |-> <<>>,
     chunks |-> [i \in 1..Len(all_chunks) |-> all_chunks[i].content],
     update_existing |-> TRUE]

\* a plausible slip: add_chunks is called whether there are chunks or not
IndexChunks_AlwaysAdds(cleaned, done) ==
    LET added == add_chunks_update_existing(cleaned.db, cleaned.table,
                                            done.all_chunks, TRUE, NoError)
    IN [db |-> added.db, table |-> added.table, err |-> added.err,
        files_processed |-> done.files_processed,
        files_skipped |-> done.files_skipped, total_chunks |-> added.ret,
        removed |-> cleaned.removed, add_calls |-> 1,
        embedded |-> added.embedded,
        store_calls |-> Append(RemoveCalls(cleaned.removed),
                               AddCall(done.all_chunks))]

\* the end of index: the chunks of all files go to add_chunks in one batch,
\* when there are any; err is the exception that leaves index
IndexChunks(cleaned, done) ==
    IF done.all_chunks = <<>>
    THEN [db |-> cleaned.db, table |-> cleaned.table, err |-> NoError,
          files_processed |-> done.files_processed,
          files_skipped |-> done.files_skipped, total_chunks |-> 0,
          removed |-> cleaned.removed, add_calls |-> 0, embedded |-> <<>>,
          store_calls |-> RemoveCalls(cleaned.removed)]
    ELSE LET added == add_chunks_update_existing(cleaned.db, cleaned.table,
                                                 done.all_chunks, TRUE, NoError)
         IN [db |-> added.db, table |-> added.table, err |-> added.err,
             files_processed |-> done.files_processed,
             files_skipped |-> done.files_skipped, total_chunks |-> added.ret,
             removed |-> cleaned.removed, add_calls |-> 1,
             embedded |-> added.embedded,
             store_calls |-> Append(RemoveCalls(cleaned.removed),
                                    AddCall(done.all_chunks))]

\* index once the files are found: nothing is done when there are none
IndexFiles(dbv, tbl, dsk, root, remove_deleted, order, files) ==
    IF files = <<>>
    THEN [db |-> dbv, table |-> tbl, err |-> NoError, files_processed |-> 0,
          files_skipped |-> 0, total_chunks |-> 0, removed |-> <<>>,
          add_calls |-> 0, embedded |-> <<>>, store_calls |-> <<>>]
    ELSE IndexChunks(
             IF remove_deleted
             THEN _remove_deleted_files(dbv, tbl, files, root, order)
             ELSE [db |-> dbv, table |-> tbl, removed |-> <<>>],
             ProcessFiles(dsk, files, 1,
                 [all_chunks |-> <<>>, files_processed |-> 0,
                  files_skipped |-> 0]))

\* CodeIndexer(root).index(vector_store, remove_deleted)
index(dbv, tbl, dsk, root, remove_deleted, order) ==
    IndexFiles(dbv, tbl, dsk, root, remove_deleted, order, find_files(dsk, root))

(***************************************************************************)
(* Inputs of the store's operations.                                       *)
(***************************************************************************)
S_a == <<"a">>
S_acolon == <<"a", ":">>
S_c == <<"c">>
S_colonc == <<":", "c">>

MakeChunk(file_path, content) ==
    [content |-> content,
     source |-> PathName(file_path),
     file_path |-> file_path,
     start_line |-> 1,
     end_line |-> Len(content)]

\* three well-formed chunks (two of them of one file, and two whose path and
\* content concatenate to the same text) and a malformed one
Chunks ==
    {MakeChunk(S_a, S_c), MakeChunk(S_a, S_colonc), MakeChunk(S_acolon, S_c),
     MakeChunk(S_a, <<>>)}

BoundedSeq(S, n) == UNION {[1..k -> S] : k \in 0..n}

Batches == BoundedSeq(Chunks, MaxBatch)

Queries == {<<>>, <<" ">>, <<"q">>, <<"q", ":">>}

Filters == {<<>>, S_acolon}

ChunkPaths == {S_a, S_acolon}


(***************************************************************************)
(* The last operation: its arguments and its outcome.                      *)
(***************************************************************************)
\* the other store objects on the database, and what one of them is at: no
\* store object yet, a store object with its handle, or add_chunks between
\* its scan and its append with the records it is about to append
Writers == {"B", "C"}
Closed == "closed"
Opened == "opened"
Scanned == "scanned"
NoWriter == [pc |-> Closed, table |-> None, records |-> <<>>]

NoLast ==
    [op |-> "init", chunks |-> <<>>, update_existing |-> FALSE,
     file_path |-> <<>>, query |-> <<>>, top_k |-> 0, filter_path |-> <<>>,
     ret |-> 0, err |-> NoError, embedded |-> <<>>, scans |-> 0,
     matches |-> <<>>, stats |-> [total_chunks |-> 0],
     root |-> <<>>, remove_deleted |-> FALSE, repeat |-> FALSE,
     files_processed |-> 0, files_skipped |-> 0, total_chunks |-> 0,
     removed |-> <<>>, add_calls |-> 0, warning |-> FALSE,
     top_k_arg |-> <<>>, engine |-> NoError, directory |-> <<>>,
     clear |-> FALSE, calls |-> <<>>, content |-> <<>>,
     failed |-> 0, chunked |-> FALSE, files |-> <<>>,
     purged |-> <<>>, purged_rows |-> 0, store_calls |-> <<>>,
     pc |-> "idle", scanned |-> <<>>, appended |-> {}, lost |-> {},
     serialised |-> FALSE,
     writers |-> [w \in Writers |-> NoWriter],
     text |-> [lead |-> "", error |-> NoError, query |-> <<>>, top_k |-> <<>>,
               advice |-> FALSE, listed |-> <<>>],
     result |-> [raised |-> NoError, success |-> FALSE, error |-> NoError,
                 files_processed |-> 0,
                 files_skipped |-> 0, chunks_added |-> 0, total_chunks |-> 0,
                 unique_files |-> 0]]

Init ==
    /\ db = NoTable
    /\ table = None
    /\ disk = [p \in FilePaths |-> NoFile]
    /\ last = NoLast

\* the store's operations while the engine answers every call
\* add_chunks(chunks) of src/vector_store.py
AddChunks ==
    \E chunks \in Batches :
        LET out == add_chunks(db, table, chunks, NoError)
        IN /\ Len(Rows(out.db)) <= MaxRecords
           /\ db' = out.db
           /\ table' = out.table
           /\ last' = [NoLast EXCEPT !.op = "add_chunks", !.chunks = chunks,
                                      !.update_existing = FALSE,
                                      !.ret = out.ret, !.err = out.err,
                                      !.embedded = out.embedded]
           /\ UNCHANGED disk

\* add_chunks(chunks, update_existing=True) of the store module the indexer
\* imports, as index() calls it
AddChunksUpdateExisting ==
    \E chunks \in Batches :
        LET out == add_chunks_update_existing(db, table, chunks, TRUE, NoError)
        IN /\ Len(Rows(out.db)) <= MaxRecords
           /\ db' = out.db
           /\ table' = out.table
           /\ last' = [NoLast EXCEPT !.op = "add_chunks", !.chunks = chunks,
                                      !.update_existing = TRUE,
                                      !.ret = out.ret, !.err = out.err,
                                      !.embedded = out.embedded]
           /\ UNCHANGED disk

RemoveChunksByFile ==
    \E file_path \in ChunkPaths :
        LET out == remove_chunks_by_file(db, table, file_path)
        IN /\ db' = out.db
           /\ table' = out.table
           /\ last' = [NoLast EXCEPT !.op = "remove_chunks_by_file",
                                      !.file_path = file_path, !.ret = out.ret]
           /\ UNCHANGED disk

Search ==
    \E query \in Queries, top_k \in 1..MaxTopK :
        \E scanned \in Scans(db, table, query, top_k), filter_path \in Filters :
            LET out == search(db, table, query, top_k, filter_path, scanned)
            IN /\ last' = [NoLast EXCEPT !.op = "search", !.query = query,
                                          !.top_k = top_k,
                                          !.filter_path = filter_path,
                                          !.matches = out.matches,
                                          !.err = out.err,
                                          !.embedded = out.embedded,
                                          !.scans = out.scans]
               /\ UNCHANGED <<db, table, disk>>

Clear ==
    LET out == clear(db, table)
    IN /\ db' = out.db
       /\ table' = out.table
       /\ last' = [NoLast EXCEPT !.op = "clear", !.warning = out.warning]
       /\ UNCHANGED disk

GetStats ==
    /\ last' = [NoLast EXCEPT !.op = "get_stats",
                               !.stats = get_stats(db, table, NoError)]
    /\ UNCHANGED <<db, table, disk>>

Next ==
    \/ AddChunks
    \/ AddChunksUpdateExisting
    \/ RemoveChunksByFile
    \/ Search
    \/ Clear
    \/ GetStats

Spec == Init /\ [][Next]_vars

\* index() by a new CodeIndexer for the root; repeat tells that the
\* operation before it was index() on the same root
Index ==
    \E root \in Roots, remove_deleted \in BOOLEAN :
        \E order \in DeletionOrders(db, table, disk, root, remove_deleted) :
            LET out == index(db, table, disk, root, remove_deleted, order)
            IN /\ db' = out.db
               /\ table' = out.table
               /\ last' = [NoLast EXCEPT !.op = "index", !.root = root,
                                          !.remove_deleted = remove_deleted,
                                          !.repeat = (last.op = "index"
                                                      /\ last.root = root),
                                          !.files_processed = out.files_processed,
                                          !.files_skipped = out.files_skipped,
                                          !.total_chunks = out.total_chunks,
                                          !.err = out.err,
                                          !.removed = out.removed,
                                          !.add_calls = out.add_calls,
                                          !.embedded = out.embedded,
                                          !.store_calls = out.store_calls]
               /\ UNCHANGED disk

\* the file tree changes: a file is written, replaced, made unreadable or
\* deleted
WriteFile ==
    \E p \in FilePaths :
      \E f \in FileStates(p) :
        /\ disk[p] # f
        /\ disk' = [disk EXCEPT ![p] = f]
        /\ last' = [NoLast EXCEPT !.op = "write_file"]
        /\ UNCHANGED <<db, table>>

NextIndex ==
    \/ Index
    \/ WriteFile
    \/ Clear

SpecIndex == Init /\ [][NextIndex]_vars

(***************************************************************************)
(* The store fed with batches that mix well-formed and malformed chunks.   *)
(***************************************************************************)
\* two well-formed chunks, one without a path and one without content
MixedChunks ==
    {MakeChunk(S_a, S_c), MakeChunk(S_acolon, S_c),
     MakeChunk(<<>>, S_c), MakeChunk(S_a, <<>>)}

MixedBatches == BoundedSeq(MixedChunks, MaxBatch)

\* add_chunks(chunks) of src/vector_store.py, the engine answering every call
AddMixedChunks ==
    \E chunks \in MixedBatches :
        LET out == add_chunks(db, table, chunks, NoError)
        IN /\ Len(Rows(out.db)) <= MaxRecords
           /\ db' = out.db
           /\ table' = out.table
           /\ last' = [NoLast EXCEPT !.op = "add_chunks", !.chunks = chunks,
                                      !.ret = out.ret, !.err = out.err,
                                      !.embedded = out.embedded]
           /\ UNCHANGED disk

NextAdd ==
    \/ AddMixedChunks
    \/ Clear

SpecAdd == Init /\ [][NextAdd]_vars

(***************************************************************************)
(* The server: its two tools over the server's store object (db, table),   *)
(* and run_indexing, which works on a store object of its own.             *)
(***************************************************************************)
DefaultTopK == 5
MinTopK == 1
MaxToolTopK == 20

Max(a, b) == IF a >= b THEN a ELSE b
Min(a, b) == IF a <= b THEN a ELSE b

\* an optional integer argument: <<>> when it is None, <<n>> otherwise
NoTopK == <<>>

\* a plausible slip: the upper limit is not applied
ClampTopK_NoUpperLimit(top_k) ==
    LET given == IF top_k = NoTopK THEN DefaultTopK ELSE top_k[1]
    IN Max(MinTopK, given)

\* "Validate and clamp top_k"
ClampTopK(top_k) ==
    LET given == IF top_k = NoTopK THEN DefaultTopK ELSE top_k[1]
    IN Max(MinTopK, Min(given, MaxToolTopK))

\* failures of the storage engine under table.search
\* the tool's own message for a query that is empty once stripped
QueryRequired == "Query parameter is required and cannot be empty"

IsValueError(err) ==
    err \in {EmptyChunksError, EmptyQueryError, NotIndexedError, EngineValueError}

\* the outcomes the engine can give a scan through the handle tbl: a
\* dropped collection cannot be read, a present one can fail to be read
EngineOutcomes(dbv, tbl) ==
    IF tbl = None THEN {NoError}
    ELSE IF dbv.present THEN {NoError, EngineFailure, EngineValueError}
    ELSE {EngineFailure, EngineValueError}

\* store.search(query, top_k=top_k) as the server sees it
StoreSearch(dbv, tbl, query, top_k, scanned, engine) ==
    IF engine = NoError \/ query = <<>> \/ tbl = None
    THEN search(dbv, tbl, query, top_k, <<>>, scanned)
    ELSE [matches |-> <<>>, err |-> engine, embedded |-> <<query>>, scans |-> 1]

\* the text a tool returns: its leading words, the message of the error it
\* quotes (named by the error), the query and top_k it quotes, whether the
\* advice to run the indexer follows, and the results it lists
ToolText(lead, error, query, top_k, advice, listed) ==
    [lead |-> lead, error |-> error, query |-> query, top_k |-> top_k,
     advice |-> advice, listed |-> listed]

format_search_results(query, results) ==
    ToolText("Found", NoError, query, NoTopK, FALSE, results)

\* a plausible slip: a ValueError of the store is reported without its message
SearchFailureText_DropsMessage(err, query, top_k) ==
    IF IsValueError(err)
    THEN ToolText("Error: ", NoError, <<>>, NoTopK, TRUE, <<>>)
    ELSE ToolText("Search error: ", err, query, <<top_k>>, FALSE, <<>>)

\* the two except clauses of search_codebase
SearchFailureText(err, query, top_k) ==
    IF IsValueError(err)
    THEN ToolText("Error: ", err, <<>>, NoTopK, TRUE, <<>>)
    ELSE ToolText("Search error: ", err, query, <<top_k>>, FALSE, <<>>)

\* a plausible slip: the query is used as it was given
CleanQuery_AsGiven(query) == query

\* `query = query.strip()`
CleanQuery(query) == strip(query)

\* the tool search_codebase(query, top_k): the text it returns and the calls
\* of store.search it makes
search_codebase(dbv, tbl, query, top_k, scanned, engine) ==
    LET clamped == ClampTopK(top_k)
        cleaned == CleanQuery(query)
        out == StoreSearch(dbv, tbl, cleaned, clamped, scanned, engine)
        call == <<[query |-> cleaned, top_k |-> clamped]>>
        returned == [err |-> out.err, matches |-> out.matches]
    IN IF cleaned = <<>>
       THEN [text |-> ToolText("Error: ", QueryRequired, <<>>, NoTopK, FALSE, <<>>),
             calls |-> <<>>, returned |-> [err |-> NoError, matches |-> <<>>]]
       ELSE IF out.err # NoError
       THEN [text |-> SearchFailureText(out.err, cleaned, clamped),
             calls |-> call, returned |-> returned]
       ELSE IF out.matches = <<>>
       THEN [text |-> ToolText("No results found", NoError, cleaned, NoTopK, TRUE, <<>>),
             calls |-> call, returned |-> returned]
       ELSE [text |-> format_search_results(cleaned, out.matches),
             calls |-> call, returned |-> returned]

\* the directory the server process runs in
Cwd == Root_r

Dir_here == <<".">>
Dir_missing == <<"/", "x">>

Dir_r2_slash == <<"/", "r", "2", "/">>
Dir_up_r2 == <<".", ".", "/", "r", "2">>
Dir_file == <<"a", ".", "c", "s">>
Dir_up == <<".", ".">>

\* the directory arguments given to reindex_codebase: none, the working
\* directory, the second root written in three ways, the directory above
\* the working directory, a file written in two ways and a path that does
\* not exist
Directories ==
    {<<>>, Dir_here, Root_r2, Dir_r2_slash, Dir_up_r2, Dir_up, File_a, Dir_file,
     Dir_missing}

PathMissingError == "ValueError: Path does not exist"
NotADirectoryError == "ValueError: Path is not a directory"

\* the components of a path, read from the left: an empty component and "."
\* are dropped, ".." takes the component before it away and stays at the
\* root when there is none
RECURSIVE Normalise(_, _)
Normalise(parts, done) ==
    IF parts = <<>> THEN done
    ELSE IF Head(parts) \in {<<>>, <<".">>} THEN Normalise(Tail(parts), done)
    ELSE IF Head(parts) = <<".", ".">>
    THEN Normalise(Tail(parts), SubSeq(done, 1, Len(done) - 1))
    ELSE Normalise(Tail(parts), Append(done, Head(parts)))

\* Path(root_path).resolve() in a tree without symbolic links: a relative
\* path is taken from the working directory, and the result is absolute and
\* normalised, without a trailing "/"
Resolve(directory) ==
    LET absolute == IF directory # <<>> /\ Head(directory) = "/" THEN directory
                    ELSE Cwd \o <<"/">> \o directory
    IN <<"/">> \o join(Normalise(split(absolute, "/"), <<>>), <<"/">>)

\* the directories of the tree: the two roots and the directory they are in
TreeDirectories == Roots \cup {<<"/">>}

\* CodeIndexer.__init__: the resolved root has to exist and to be a directory
IndexerError(dsk, root) ==
    IF root \in TreeDirectories THEN NoError
    ELSE IF root \in DOMAIN dsk /\ dsk[root].kind # "none" THEN NotADirectoryError
    ELSE PathMissingError

\* VectorStore._init_table: the handle of a new store object
InitTable(dbv) == IF dbv.present THEN Open ELSE None

\* run_indexing up to the construction of the indexer: a store object of
\* its own on the database, cleared when asked
OpenForIndexing(dbv, clear_flag) ==
    IF clear_flag
    THEN clear(dbv, InitTable(dbv))
    ELSE [db |-> dbv, table |-> InitTable(dbv), warning |-> FALSE]

\* the result of run_indexing after index() returned `out` or raised
\* out.err: the final statistics are read with stats.get(key, 0)
IndexingResult(out) ==
    LET stats == get_stats(out.db, out.table, NoError)
    IN IF out.err # NoError
       THEN [db |-> out.db, raised |-> NoError, success |-> FALSE,
             error |-> out.err,
             files_processed |-> 0, files_skipped |-> 0, chunks_added |-> 0,
             total_chunks |-> 0, unique_files |-> 0]
       ELSE [db |-> out.db, raised |-> NoError, success |-> TRUE,
             error |-> NoError,
             files_processed |-> out.files_processed,
             files_skipped |-> out.files_skipped,
             chunks_added |-> out.total_chunks,
             total_chunks |-> stats.total_chunks,
             unique_files |-> IF "unique_files" \in DOMAIN stats
                              THEN stats.unique_files ELSE 0]

\* run_indexing(directory, db_path, clear), the deleted files met in `order`;
\* both except clauses return a dictionary, so nothing is raised to the caller
run_indexing(dbv, dsk, directory, clear_flag, order) ==
    IF IndexerError(dsk, Resolve(directory)) # NoError
    THEN [db |-> OpenForIndexing(dbv, clear_flag).db, raised |-> NoError,
          success |-> FALSE,
          error |-> IndexerError(dsk, Resolve(directory)),
          files_processed |-> 0, files_skipped |-> 0, chunks_added |-> 0,
          total_chunks |-> 0, unique_files |-> 0]
    ELSE IndexingResult(index(OpenForIndexing(dbv, clear_flag).db,
                              OpenForIndexing(dbv, clear_flag).table,
                              dsk, Resolve(directory), TRUE, order))

\* the iteration orders of the deleted files that run_indexing can meet
IndexingOrders(dbv, dsk, directory, clear_flag) ==
    IF IndexerError(dsk, Resolve(directory)) # NoError THEN {<<>>}
    ELSE DeletionOrders(OpenForIndexing(dbv, clear_flag).db,
                        OpenForIndexing(dbv, clear_flag).table,
                        dsk, Resolve(directory), TRUE)

\* `if not directory: directory = "."`
DefaultDirectory(directory) == IF directory = <<>> THEN Dir_here ELSE directory

\* the text of reindex_codebase for the result of run_indexing
ReindexText(result) ==
    IF result.raised # NoError
    THEN ToolText("Error during indexing: ", result.raised, <<>>, NoTopK, FALSE, <<>>)
    ELSE IF ~result.success
    THEN ToolText("Indexing failed: ", result.error, <<>>, NoTopK, FALSE, <<>>)
    ELSE ToolText("Indexing completed successfully!", NoError, <<>>, NoTopK, FALSE,
                  <<result.files_processed, result.files_skipped,
                    result.chunks_added, result.total_chunks,
                    result.unique_files>>)

\* a plausible slip: the tool clears the server's store itself
reindex_codebase_ClearsStore(dbv, tbl, dsk, directory, clear_flag, order) ==
    LET ran == run_indexing(dbv, dsk, DefaultDirectory(directory), clear_flag, order)
    IN [db |-> ran.db,
        table |-> IF clear_flag THEN None ELSE tbl,
        text |-> ReindexText(ran),
        result |-> [x \in DOMAIN ran \ {"db"} |-> ran[x]],
        calls |-> <<[directory |-> DefaultDirectory(directory), clear |-> clear_flag]>>]

\* the tool reindex_codebase(directory, clear): run_indexing catches every
\* exception itself, so the tool's own except clause is never entered
reindex_codebase(dbv, tbl, dsk, directory, clear_flag, order) ==
    LET ran == run_indexing(dbv, dsk, DefaultDirectory(directory), clear_flag, order)
    IN [db |-> ran.db,
        table |-> tbl,
        text |-> ReindexText(ran),
        result |-> [x \in DOMAIN ran \ {"db"} |-> ran[x]],
        calls |-> <<[directory |-> DefaultDirectory(directory), clear |-> clear_flag]>>]

\* the optional top_k arguments and the queries given to search_codebase
TopKArgs == {NoTopK} \cup {<<n>> : n \in {-1, 0, 1, 2, 20, 21, 25}}

ToolQueries == {<<>>, <<" ", "\f">>, <<"q">>, <<"\f", "q", ":", " ">>}

EmptyTree == [p \in FilePaths |-> NoFile]

\* the file trees the server is started on
ServerTrees ==
    {EmptyTree,
     [EmptyTree EXCEPT ![File_a] = FileOf(BlockA), ![File_b] = FileOf(Tiny),
                       ![File_c] = FileOf(BlockA)]}

InitServer ==
    /\ db = NoTable
    /\ table = None
    /\ disk \in ServerTrees
    /\ last = NoLast

SearchCodebase ==
    \E query \in ToolQueries, top_k \in TopKArgs, engine \in EngineOutcomes(db, table) :
        \E scanned \in Scans(db, table, CleanQuery(query), ClampTopK(top_k)) :
            LET out == search_codebase(db, table, query, top_k, scanned, engine)
            IN /\ last' = [NoLast EXCEPT !.op = "search_codebase",
                                          !.query = query,
                                          !.top_k_arg = top_k,
                                          !.engine = engine,
                                          !.text = out.text,
                                          !.calls = out.calls,
                                          !.err = out.returned.err,
                                          !.matches = out.returned.matches]
               /\ UNCHANGED <<db, table, disk>>

ReindexCodebase ==
    \E directory \in Directories, clear_flag \in BOOLEAN :
        \E order \in IndexingOrders(db, disk, DefaultDirectory(directory), clear_flag) :
            LET out == reindex_codebase(db, table, disk, directory, clear_flag, order)
            IN /\ db' = out.db
               /\ table' = out.table
               /\ last' = [NoLast EXCEPT !.op = "reindex_codebase",
                                          !.directory = directory,
                                          !.clear = clear_flag,
                                          !.text = out.text,
                                          !.result = out.result,
                                          !.calls = out.calls]
               /\ UNCHANGED disk

\* the server process is started again: `store = VectorStore()`
RestartServer ==
    /\ table' = InitTable(db)
    /\ last' = [NoLast EXCEPT !.op = "restart"]
    /\ UNCHANGED <<db, disk>>

\* the source file of the working directory is deleted
DeleteFile ==
    /\ disk[File_a] # NoFile
    /\ disk' = [disk EXCEPT ![File_a] = NoFile]
    /\ last' = [NoLast EXCEPT !.op = "delete_file"]
    /\ UNCHANGED <<db, table>>

NextServer ==
    \/ SearchCodebase
    \/ ReindexCodebase
    \/ RestartServer
    \/ DeleteFile

SpecServer == InitServer /\ [][NextServer]_vars

(***************************************************************************)
(* The chunker on its own: chunk_code applied to texts built from lines.   *)
(***************************************************************************)
MaxTextLines == 6

\* the lines a text is built from: the head of a block, a long line, the
\* end of a block and an empty line
LineOpen == <<"a", "{">>
LineLong == Rep("x", 44)
LineClose == <<"}">>
LineBlank == <<>>

TextLines == {LineOpen, LineLong, LineClose, LineBlank}

\* the texts given to chunk_code: up to MaxTextLines lines joined by "\n"
Texts ==
    UNION {{join(ls, <<"\n">>) : ls \in [1..n -> TextLines]} : n \in 0..MaxTextLines}

InitChunk ==
    /\ db = NoTable
    /\ table = None
    /\ disk = EmptyTree
    /\ \E text \in Texts :
           last = [NoLast EXCEPT !.op = "input", !.content = text,
                                 !.file_path = File_a]

\* chunk_code is called on the text
ChunkCode ==
    /\ last.op = "input"
    /\ last' = [last EXCEPT !.op = "chunk_code",
                            !.chunks = chunk_code(last.content, last.file_path)]
    /\ UNCHANGED <<db, table, disk>>

NextChunk == ChunkCode

SpecChunk == InitChunk /\ [][NextChunk]_vars

(***************************************************************************)
(* The chunker on source files made of whole declarations.                 *)
(***************************************************************************)
MaxUnits == 3

\* the pieces a source file is built from: a block of five lines, a block
\* of five lines with a block inside, a block of four lines, a header line
\* and an empty line
UnitBlock == <<LineOpen, LineLong, LineBlank, LineBlank, LineClose>>
UnitNested == <<LineOpen, LineOpen, LineLong, LineClose, LineClose>>
UnitShort == <<LineOpen, LineLong, LineLong, LineClose>>
UnitHeader == <<LineLong>>
UnitBlank == <<LineBlank>>

Units == {UnitBlock, UnitNested, UnitShort, UnitHeader, UnitBlank}

\* the lines of the pieces, one piece after the other
RECURSIVE Flatten(_)
Flatten(units) ==
    IF units = <<>> THEN <<>> ELSE Head(units) \o Flatten(Tail(units))

\* the source files: up to MaxUnits pieces, their lines joined by "\n"
BlockTexts ==
    UNION {{join(Flatten(us), <<"\n">>) : us \in [1..n -> Units]} : n \in 0..MaxUnits}

InitBlocks ==
    /\ db = NoTable
    /\ table = None
    /\ disk = EmptyTree
    /\ \E text \in BlockTexts :
           last = [NoLast EXCEPT !.op = "input", !.content = text,
                                 !.file_path = File_a]

SpecBlocks == InitBlocks /\ [][NextChunk]_vars

(***************************************************************************)
(* The chunker on prose: paragraphs separated by empty lines.              *)
(***************************************************************************)
MaxParagraphs == 3

\* the paragraphs a prose file is built from: one line of 50 characters, two
\* lines, one word, 48 characters between spaces, a paragraph after a third
\* newline, and nothing (two separators in a row)
ParaLine == Rep("x", 50)
ParaTwoLines == LineLong \o <<"\n">> \o LineLong
ParaWord == <<"w">>
ParaPadded == <<" ", " ">> \o Rep("x", 48) \o <<" ">>
ParaLate == <<"\n">> \o Rep("y", 50)
ParaNone == <<>>

Paragraphs == {ParaLine, ParaTwoLines, ParaWord, ParaPadded, ParaLate, ParaNone}

\* the prose files: up to MaxParagraphs paragraphs joined by "\n\n"
ProseTexts ==
    UNION {{join(ps, <<"\n", "\n">>) : ps \in [1..n -> Paragraphs]} : n \in 0..MaxParagraphs}

InitProse ==
    /\ db = NoTable
    /\ table = None
    /\ disk = EmptyTree
    /\ \E text \in ProseTexts :
           last = [NoLast EXCEPT !.op = "input", !.content = text,
                                 !.file_path = File_b]

SpecProse == InitProse /\ [][NextChunk]_vars

(***************************************************************************)
(* One file: process_file and chunk_code on texts with and without text.   *)
(***************************************************************************)
MaxBlankLen == 3

\* the texts that hold nothing but whitespace, the empty text among them
BlankTexts ==
    UNION {[1..n -> {" ", "\n", "\t", "\f"}] : n \in 0..MaxBlankLen}

\* one file on the disk: a source file or a prose file, blank or not
InitFile ==
    /\ db = NoTable
    /\ table = None
    /\ \E p \in {File_a, File_b}, text \in BlankTexts \cup FileTexts :
           /\ disk = [EmptyTree EXCEPT ![p] = FileOf(text)]
           /\ last = [NoLast EXCEPT !.op = "input", !.content = text,
                                    !.file_path = p]

\* process_file is called on the file
ProcessFile ==
    /\ last.op = "input"
    /\ LET got == process_file(disk, last.file_path)
       IN last' = [last EXCEPT !.op = "process_file",
                               !.chunks = got.chunks,
                               !.failed = got.failed,
                               !.chunked = got.chunked]
    /\ UNCHANGED <<db, table, disk>>

NextFile ==
    \/ ProcessFile
    \/ ChunkCode

SpecFile == InitFile /\ [][NextFile]_vars

(***************************************************************************)
(* The enumeration of the files of a root directory.                       *)
(***************************************************************************)
\* a root directory whose own name is in the skip list
Root_obj == <<"/", "o", "b", "j">>

\* files of both cases of a supported extension, of another extension, in
\* a skipped directory, in a subdirectory, in a skipped directory below it,
\* below the root named obj and below another root
Find_cs == <<"/", "r", "/", "a", ".", "c", "s">>
Find_upper == <<"/", "r", "/", "A", ".", "C", "S">>
Find_py == <<"/", "r", "/", "a", ".", "p", "y">>
Find_bin == <<"/", "r", "/", "b", "i", "n", "/", "a", ".", "c", "s">>
Find_sub == <<"/", "r", "/", "s", "/", "a", ".", "m", "d">>
Find_subobj == <<"/", "r", "/", "s", "/", "o", "b", "j", "/", "a", ".", "t", "x", "t">>
Find_obj == <<"/", "o", "b", "j", "/", "a", ".", "c", "s">>
Find_r2 == <<"/", "r", "2", "/", "a", ".", "c", "s">>

FindPaths ==
    {Find_cs, Find_upper, Find_py, Find_bin,
     Find_sub, Find_subobj, Find_obj, Find_r2}

FindRoots == {Root_r, Root_obj}

\* any of the files may exist; index is about to run on one of the roots
InitFind ==
    /\ db = NoTable
    /\ table = None
    /\ \E present \in SUBSET FindPaths, root \in FindRoots :
           /\ disk = [p \in FindPaths |-> IF p \in present THEN FileOf(Tiny) ELSE NoFile]
           /\ last = [NoLast EXCEPT !.op = "input", !.root = root]

\* find_files of a CodeIndexer of the root
FindFiles ==
    /\ last.op = "input"
    /\ last' = [last EXCEPT !.op = "find_files",
                            !.files = find_files(disk, last.root)]
    /\ UNCHANGED <<db, table, disk>>

NextFind == FindFiles

SpecFind == InitFind /\ [][NextFind]_vars

(***************************************************************************)
(* Properties of the store.                                                *)
(***************************************************************************)

\* C1: in every reachable state no two persisted records have the same
\* (file_path, content), so none have the same chunk_hash.
C1_DedupInvariant ==
    \A i, j \in 1..Len(Rows(db)) :
        i # j => ~(/\ Rows(db)[i].file_path = Rows(db)[j].file_path
                   /\ Rows(db)[i].content = Rows(db)[j].content)

\* the rows of a sequence of records that belong to one file
OfFile(rows, file_path) == SelectSeq(rows, LAMBDA r : r.file_path = file_path)

\* C2: after add_chunks with update_existing, every file of a valid chunk of
\* the batch has exactly the batch's records stored for it.
C2_UpdateInvariant ==
    (last.op = "add_chunks" /\ last.update_existing /\ last.err = NoError) =>
        \A r \in Range(BuildRecords(last.chunks)) :
            OfFile(Rows(db), r.file_path)
                = OfFile(BuildRecords(last.chunks), r.file_path)

\* C3: index() right after index() on the same root, the tree and the store
\* untouched in between, inserts no chunk.
C3_SecondIndexAddsNothing ==
    (last.op = "index" /\ last.repeat) => last.total_chunks = 0

\* C4: after index() with remove_deleted on a root, no stored record is of
\* a path below the root that is not among the files found on disk.
C4_DeletedFilesRemoved ==
    (last.op = "index" /\ last.remove_deleted) =>
        \A r \in Range(Rows(db)) :
            IsBelow(r.file_path, last.root)
                => r.file_path \in Range(find_files(disk, last.root))

\* C5: search with a non-empty query on a store with no collection raises
\* the not-indexed error and returns nothing.
C5_SearchAbsentNotIndexed ==
    (last.op = "search" /\ table = None /\ last.query # <<>>)
        => (last.err = NotIndexedError /\ last.matches = <<>>)

C5_Witness ==
    /\ last.op = "search"
    /\ table = None
    /\ last.query = <<"q">>
    /\ last.err = NotIndexedError

\* C6 as stated: search raises the empty-query error, before any embedding
\* or scan, whenever the query trims to empty.
C6_EmptyQueryTrimmed ==
    (last.op = "search" /\ strip(last.query) = <<>>)
        => (last.err = EmptyQueryError /\ last.embedded = <<>> /\ last.scans = 0)

\* C6 as amended: search raises the empty-query error, before any embedding
\* or scan and whether the collection exists or not, exactly when the query
\* is the empty string; a whitespace-only query is not taken for empty.
C6_EmptyQueryExact ==
    last.op = "search" =>
        /\ last.query = <<>> =>
              (/\ last.err = EmptyQueryError
               /\ last.matches = <<>>
               /\ last.embedded = <<>>
               /\ last.scans = 0)
        /\ last.query # <<>> => last.err # EmptyQueryError

C6_Witness ==
    /\ last.op = "search"
    /\ last.query = <<>>
    /\ table = Open
    /\ Len(Rows(db)) > 0
    /\ last.err = EmptyQueryError

\* C7: a search that succeeds returns at most top_k results, in ascending
\* order of score, each one the content, source, file_path, start_line and
\* end_line of a persisted record with its distance to the query.
C7_SearchResults ==
    (last.op = "search" /\ last.err = NoError) =>
        LET m == last.matches
            qv == _generate_embedding(last.query)
        IN /\ Len(m) <= last.top_k
           /\ \A i \in 1..(Len(m) - 1) : m[i].score <= m[i + 1].score
           /\ \A i \in 1..Len(m) :
                 \E r \in Range(Rows(db)) :
                     /\ m[i].content = r.content
                     /\ m[i].source = r.source
                     /\ m[i].file_path = r.file_path
                     /\ m[i].start_line = r.start_line
                     /\ m[i].end_line = r.end_line
                     /\ m[i].score = Distance(r.vector, qv)

C7_Witness ==
    /\ last.op = "search"
    /\ last.err = NoError
    /\ Len(Rows(db)) > last.top_k
    /\ Len(last.matches) = 2
    /\ last.matches[1].score < last.matches[2].score

\* C8: without update_existing, the number of stored records after
\* add_chunks is the number before plus the value returned.
C8_ReturnsInsertedCount ==
    [][(last'.op = "add_chunks" /\ ~last'.update_existing /\ last'.err = NoError)
          => Len(Rows(db')) = Len(Rows(db)) + last'.ret]_vars

C8_Witness ==
    /\ last.op = "add_chunks"
    /\ ~last.update_existing
    /\ Len(BuildRecords(last.chunks)) = 2
    /\ last.ret = 1
    /\ Len(Rows(db)) = 3

\* every well-formed chunk of the batch has its fingerprint among the stored
\* rows of dbv
AllStored(dbv, chunks) ==
    \A r \in Range(BuildRecords(chunks)) :
        \E row \in Range(Rows(dbv)) : row.chunk_hash = r.chunk_hash

\* C9: when the batch yields no record to insert (it is empty, all its
\* chunks are malformed, or every fingerprint is stored already), add_chunks
\* returns 0 without raising and leaves the store as it was, whatever the
\* engine does during the call.
C9_ZeroNetNewNeverFails ==
    [][(/\ last'.op = "add_chunks"
        /\ \/ last'.chunks = <<>>
           \/ BuildRecords(last'.chunks) = <<>>
           \/ AllStored(db, last'.chunks))
          => (/\ last'.ret = 0
              /\ last'.err = NoError
              /\ db' = db
              /\ table' = table)]_vars

\* C10: add_chunks with an empty list raises ValueError and leaves the
\* store as it was.
C10_EmptyListRaises ==
    [][(last'.op = "add_chunks" /\ last'.chunks = <<>>)
          => (/\ last'.err = EmptyChunksError
              /\ db' = db
              /\ table' = table)]_vars

C10_Witness ==
    /\ last.op = "add_chunks"
    /\ last.chunks = <<>>
    /\ last.err = EmptyChunksError
    /\ Len(Rows(db)) > 0

\* the chunks of a batch that have both a content and a path
WellFormed(chunks) ==
    SelectSeq(chunks, LAMBDA c : c.content # <<>> /\ c.file_path # <<>>)

\* C11: no stored record has an empty content or an empty path; add_chunks
\* with a batch that is not empty does not raise, whatever malformed chunks
\* it holds, embeds exactly the well-formed chunks of the batch, and each of
\* them is stored when the call returns.
C11_MalformedDropped ==
    /\ \A r \in Range(Rows(db)) : r.content # <<>> /\ r.file_path # <<>>
    /\ (last.op = "add_chunks" /\ last.chunks # <<>>) =>
          LET valid == WellFormed(last.chunks)
          IN /\ last.err = NoError
             /\ last.embedded = [i \in 1..Len(valid) |-> valid[i].content]
             /\ \A c \in Range(valid) :
                   \E r \in Range(Rows(db)) :
                       r.content = c.content /\ r.file_path = c.file_path

C11_Witness ==
    /\ last.op = "add_chunks"
    /\ Len(last.chunks) = 2
    /\ Len(WellFormed(last.chunks)) = 1
    /\ last.chunks[1].file_path = <<>>
    /\ last.err = NoError
    /\ last.ret = 1
    /\ Len(Rows(db)) = 2

\* C12: the collection exists exactly when the store has its handle on it;
\* a step takes the store from absent to present only if it is an
\* add_chunks call that did not raise and had a well-formed chunk, every
\* such call on an absent store does so, and only clear takes the store
\* from present to absent.
C12_Lifecycle ==
    [][/\ (table' = None) <=> ~db'.present
       /\ (table = None /\ table' # None) =>
             (/\ last'.op = "add_chunks"
              /\ last'.err = NoError
              /\ WellFormed(last'.chunks) # <<>>)
       /\ (table = None /\ last'.op = "add_chunks"
             /\ WellFormed(last'.chunks) # <<>>) => table' # None
       /\ (table # None /\ table' = None) => last'.op = "clear"]_vars

C12_Witness ==
    /\ last.op = "add_chunks"
    /\ last.chunks # <<>>
    /\ WellFormed(last.chunks) = <<>>
    /\ last.err = NoError
    /\ table = None
    /\ ~db.present

\* C13: clear leaves the store absent and raises nothing, whatever the
\* state before; on an absent store it changes nothing, so a second clear
\* is without effect; the search that follows a clear raises the
\* not-indexed error and the get_stats that follows reports no chunk.
C13_ClearDropsAll ==
    [][/\ last'.op = "clear" =>
             (table' = None /\ ~db'.present /\ last'.err = NoError)
       /\ (last'.op = "clear" /\ table = None) => (db' = db /\ table' = table)
       /\ (last.op = "clear" /\ last'.op = "clear") => (db' = db /\ table' = table)
       /\ (last.op = "clear" /\ last'.op = "search" /\ last'.query # <<>>) =>
             (last'.err = NotIndexedError /\ last'.matches = <<>>)
       /\ (last.op = "clear" /\ last'.op = "get_stats") =>
             last'.stats.total_chunks = 0]_vars

C13_Witness ==
    /\ last.op = "clear"
    /\ ~last.warning
    /\ table = None
    /\ db = NoTable

\* C14: get_stats raises nothing and changes nothing, whatever the engine
\* does: it always returns a dictionary with total_chunks. On an absent store
\* it reports no chunk, and the embedding dimension; on a present store whose
\* scan the engine answers it reports the number of stored records and the
\* number of distinct paths among them. When the scan raises (the engine
\* fails, or the collection was dropped behind the handle) it reports no
\* chunk, the message of the exception and no number of files.
C14_StatsReadOnly ==
    [][last'.op = "get_stats" =>
          /\ db' = db /\ table' = table
          /\ last'.err = NoError
          /\ "total_chunks" \in DOMAIN last'.stats
          /\ table = None =>
                (/\ last'.stats.total_chunks = 0
                 /\ last'.stats.model = EmbeddingDim)
          /\ (table # None /\ db.present
                /\ last'.engine \in {NoError, EngineWriteFailure}) =>
                (/\ last'.stats.total_chunks = Len(Rows(db))
                 /\ last'.stats.unique_files
                       = Cardinality({Rows(db)[i].file_path : i \in 1..Len(Rows(db))})
                 /\ last'.stats.embedding_dim = EmbeddingDim)
          /\ (table # None /\ ~(db.present
                /\ last'.engine \in {NoError, EngineWriteFailure})) =>
                (/\ last'.stats.total_chunks = 0
                 /\ DOMAIN last'.stats = {"total_chunks", "error"}
                 /\ last'.stats.error # NoError)]_vars

C14_Witness ==
    /\ last.op = "get_stats"
    /\ table = Open
    /\ last.stats.total_chunks = 3
    /\ last.stats.unique_files = 2

\* C15: remove_chunks_by_file(p) returns the number of stored records whose
\* path is exactly p, removes those records and no other, and leaves the
\* records of every other path as they were, in their order.
C15_RemoveByFileExact ==
    [][last'.op = "remove_chunks_by_file" =>
          LET p == last'.file_path
              matching == {i \in 1..Len(Rows(db)) : Rows(db)[i].file_path = p}
          IN /\ last'.ret = Cardinality(matching)
             /\ Rows(db') = SelectSeq(Rows(db), LAMBDA r : r.file_path # p)
             /\ \A r \in Range(Rows(db')) : r.file_path # p]_vars

C15_Witness ==
    /\ last.op = "remove_chunks_by_file"
    /\ last.file_path = S_a
    /\ last.ret = 2
    /\ Len(Rows(db)) = 1
    /\ Rows(db)[1].file_path = S_acolon

\* C16: the search tool hands the store max(1, min(top_k, 20)) for an integer
\* top_k and 5 for a missing one, so the store is never asked for fewer than
\* 1 or more than 20 results.
C16_TopKClamped ==
    last.op = "search_codebase" =>
        \A i \in DOMAIN last.calls :
            /\ last.calls[i].top_k \in 1..20
            /\ last.top_k_arg = <<>> => last.calls[i].top_k = 5
            /\ last.top_k_arg # <<>> =>
                   last.calls[i].top_k =
                       (IF last.top_k_arg[1] < 1 THEN 1
                        ELSE IF last.top_k_arg[1] > 20 THEN 20
                        ELSE last.top_k_arg[1])

\* a request for 21 results reached the store as a request for 20
C16_Witness ==
    /\ last.op = "search_codebase"
    /\ last.top_k_arg = <<21>>
    /\ last.calls # <<>>
    /\ last.calls[1].top_k = 20
    /\ last.matches # <<>>

\* C17: a query that is empty or holds only whitespace is answered with the
\* message that the query cannot be empty and store.search is not called; any
\* other query reaches the store once, without its leading and trailing
\* whitespace.
C17_QueryStripped ==
    last.op = "search_codebase" =>
        IF \A i \in DOMAIN last.query : last.query[i] \in Whitespace
        THEN /\ last.calls = <<>>
             /\ last.text.lead = "Error: "
             /\ last.text.error = QueryRequired
        ELSE /\ Len(last.calls) = 1
             /\ last.calls[1].query # <<>>
             /\ Head(last.calls[1].query) \notin Whitespace
             /\ last.calls[1].query[Len(last.calls[1].query)] \notin Whitespace
             /\ \E i, j \in 1..Len(last.query) :
                    last.calls[1].query = SubSeq(last.query, i, j)

\* a blank query was refused on a store that holds records
C17_Witness ==
    /\ last.op = "search_codebase"
    /\ last.query = <<" ", "\f">>
    /\ last.calls = <<>>
    /\ last.text.error = QueryRequired
    /\ table # None
    /\ db.rows # <<>>

\* C18: whatever store.search does, search_codebase returns a text: a
\* ValueError of the store gives "Error: " with the store's message and the
\* advice to run the indexer, any other exception gives "Search error: " with
\* the message, the query and top_k, and an empty result gives "No results
\* found".
C18_SearchOutcomesReported ==
    (last.op = "search_codebase" /\ last.calls # <<>>) =>
        IF last.err \in {EmptyQueryError, NotIndexedError, EngineValueError}
        THEN /\ last.text.lead = "Error: "
             /\ last.text.error = last.err
             /\ last.text.advice
        ELSE IF last.err # NoError
        THEN /\ last.text.lead = "Search error: "
             /\ last.text.error = last.err
             /\ last.text.query = last.calls[1].query
             /\ last.text.top_k = <<last.calls[1].top_k>>
        ELSE IF last.matches = <<>>
        THEN /\ last.text.lead = "No results found"
             /\ last.text.query = last.calls[1].query
        ELSE /\ last.text.lead = "Found"
             /\ last.text.listed = last.matches

\* the store was not indexed and the tool answered with the store's message
C18_Witness ==
    /\ last.op = "search_codebase"
    /\ last.calls # <<>>
    /\ last.err = NotIndexedError
    /\ last.text.lead = "Error: "
    /\ last.text.error = NotIndexedError
    /\ last.text.advice

\* C19: reindex_codebase always returns a text: a run that failed is reported
\* as "Indexing failed" with the error of the run; run_indexing is called
\* once, with the clear flag as given and with "." in place of an empty
\* directory; the handle of the server's own store is left as it was.
C19_ReindexReported ==
    [][last'.op = "reindex_codebase" =>
          /\ last'.calls =
                 <<[directory |-> IF last'.directory = <<>> THEN <<".">>
                                  ELSE last'.directory,
                    clear |-> last'.clear]>>
          /\ table' = table
          /\ last'.result.raised = NoError
          /\ IF last'.result.success
             THEN last'.text.lead = "Indexing completed successfully!"
             ELSE /\ last'.text.lead = "Indexing failed: "
                  /\ last'.text.error = last'.result.error
                  /\ last'.result.error # NoError]_vars

\* a clearing run on a path that is a file failed and was reported, the
\* server's store having an open handle
C19_Witness ==
    /\ last.op = "reindex_codebase"
    /\ last.clear
    /\ last.directory = File_a
    /\ last.text.lead = "Indexing failed: "
    /\ last.text.error = NotADirectoryError
    /\ table = Open

\* the braces opened and not closed in the lines a..b
Balance(lines, a, b) ==
    count(join(SubSeq(lines, a, b), <<"\n">>), "{")
        - count(join(SubSeq(lines, a, b), <<"\n">>), "}")

\* C20: every chunk of the structural chunker has at least 50 characters of
\* stripped content and covers at least 5 accumulated lines of the input; it
\* is the text of exactly one candidate (the lines up to the first return to
\* brace depth 0, or the unclosed rest), so a dropped candidate is never part
\* of a neighbouring chunk, and a text with fewer than 5 lines or fewer than
\* 50 characters gives no chunk at all.
C20_SizeFloor ==
    last.op = "chunk_code" =>
        LET lines == split(last.content, "\n")
        IN /\ \A i \in DOMAIN last.chunks :
                  LET c == last.chunks[i]
                      fin == IF c.end_line > Len(lines) THEN Len(lines) ELSE c.end_line
                  IN /\ Len(c.content) >= 50
                     /\ fin - c.start_line + 1 >= 5
                     /\ c.content = strip(join(SubSeq(lines, c.start_line, fin), <<"\n">>))
                     /\ Balance(lines, 1, c.start_line - 1) = 0
                     /\ \A j \in c.start_line..(fin - 1) :
                            Balance(lines, c.start_line, j) # 0
           /\ (Len(lines) < 5 \/ Len(strip(last.content)) < 50) => last.chunks = <<>>

\* a long line standing alone was dropped and the five-line block after it
\* was kept, without the dropped line
C20_Witness ==
    /\ last.op = "chunk_code"
    /\ Len(last.chunks) = 1
    /\ last.chunks[1].start_line = 2
    /\ last.chunks[1].end_line = 6
    /\ SubSeq(last.content, 1, 44) = LineLong
    /\ Head(last.chunks[1].content) = "a"

\* C21: a line at brace depth 0 that holds text and no brace (a header, a
\* using-line, a comment) belongs to the chunk of the declaration that
\* follows it: no chunk starts on the line after such a line, and a chunk of
\* a text that begins with such a line starts at line 1.
C21_HeaderInChunk ==
    last.op = "chunk_code" =>
        LET lines == split(last.content, "\n")
        IN \A i \in DOMAIN last.chunks :
               LET before == last.chunks[i].start_line - 1
               IN before >= 1 =>
                      \/ count(lines[before], "{") + count(lines[before], "}") > 0
                      \/ strip(lines[before]) = <<>>

\* the lines at which a top-level declaration ends: the brace depth is back
\* at 0 after having been non-zero, in the line or before it
DeclarationEnds(lines) ==
    {j \in 1..Len(lines) :
        /\ Balance(lines, 1, j) = 0
        /\ count(lines[j], "{") + count(lines[j], "}") > 0}

\* the first line of the top-level declaration that ends at line e: the line
\* after the end of the declaration before it, so that the header, comment
\* and blank lines in front of a brace belong to the declaration
DeclarationStart(lines, e) ==
    IF \E j \in DeclarationEnds(lines) : j < e
    THEN 1 + CHOOSE j \in DeclarationEnds(lines) :
                 j < e /\ \A m \in DeclarationEnds(lines) : m < e => m <= j
    ELSE 1

\* the text consists of top-level brace-delimited blocks, the last line
\* closing the last one, each of at least 5 lines and 50 characters
TopLevelBlocks(lines) ==
    /\ Len(lines) \in DeclarationEnds(lines)
    /\ \A e \in DeclarationEnds(lines) :
           /\ e - DeclarationStart(lines, e) + 1 >= 5
           /\ Len(strip(join(SubSeq(lines, DeclarationStart(lines, e), e),
                             <<"\n">>))) >= 50

\* C22: a source file of N lines that consists of k top-level brace-delimited
\* blocks, each of at least 5 lines and 50 characters, gives exactly k
\* chunks; the first starts at line 1, each next one starts on the line
\* after the end of the one before, and the last ends at line N.
C22_BlocksCoverFile ==
    (last.op = "chunk_code" /\ TopLevelBlocks(split(last.content, "\n"))) =>
        LET lines == split(last.content, "\n")
            k == Cardinality(DeclarationEnds(lines))
        IN /\ Len(last.chunks) = k
           /\ last.chunks[1].start_line = 1
           /\ last.chunks[k].end_line = Len(lines)
           /\ \A i \in 1..k : last.chunks[i].start_line <= last.chunks[i].end_line
           /\ \A i \in 1..(k - 1) :
                  last.chunks[i + 1].start_line = last.chunks[i].end_line + 1

\* the paragraphs of a prose text, trimmed, that have at least 50 characters
KeptParagraphs(content) ==
    SelectSeq([i \in 1..Len(SplitParagraphs(content)) |-> strip(SplitParagraphs(content)[i])],
              LAMBDA p : Len(p) >= 50)

\* C23: the chunks of a .md file are, in the order of the document, the
\* trimmed paragraphs of at least 50 characters, one chunk each; shorter
\* paragraphs give none and the number of lines of a paragraph plays no part.
C23_ParagraphChunks ==
    last.op = "chunk_code" =>
        /\ Len(last.chunks) = Len(KeptParagraphs(last.content))
        /\ \A i \in DOMAIN last.chunks :
               last.chunks[i].content = KeptParagraphs(last.content)[i]

\* three paragraphs, the second one a single word: two chunks, the first of
\* them a single line
C23_Witness ==
    /\ last.op = "chunk_code"
    /\ last.content = join(<<ParaLine, ParaWord, ParaTwoLines>>, <<"\n", "\n">>)
    /\ Len(last.chunks) = 2
    /\ last.chunks[1].content = ParaLine
    /\ last.chunks[2].content = ParaTwoLines

\* C24: the line ranges of the chunks of a prose file are well formed and
\* ascending without overlap: 1 <= start_line <= end_line, and each chunk
\* starts after the end of the chunk before it, whether or not paragraphs
\* were skipped between the two.
C24_ProseSpansAscend ==
    last.op = "chunk_code" =>
        /\ \A i \in DOMAIN last.chunks :
               /\ 1 <= last.chunks[i].start_line
               /\ last.chunks[i].start_line <= last.chunks[i].end_line
        /\ \A i \in 1..(Len(last.chunks) - 1) :
               last.chunks[i + 1].start_line > last.chunks[i].end_line

\* a word between two kept paragraphs was skipped and still counted: the
\* chunks are lines 1..1 and 7..8
C24_Witness ==
    /\ last.op = "chunk_code"
    /\ last.content = join(<<ParaLine, ParaWord, ParaTwoLines>>, <<"\n", "\n">>)
    /\ Len(last.chunks) = 2
    /\ last.chunks[1].start_line = 1 /\ last.chunks[1].end_line = 1
    /\ last.chunks[2].start_line = 7 /\ last.chunks[2].end_line = 8

\* C25: a text that is empty or holds only whitespace gives no chunk with
\* either strategy: chunk_code returns the empty list for it, and
\* process_file returns the empty list for such a file without calling the
\* chunker and without a failure.
C25_BlankGivesNothing ==
    (\A i \in DOMAIN last.content : last.content[i] \in Whitespace) =>
        /\ last.op = "chunk_code" => last.chunks = <<>>
        /\ last.op = "process_file" =>
               /\ last.chunks = <<>>
               /\ ~last.chunked
               /\ last.failed = 0

\* a prose file of a newline and a tab was processed without the chunker
C25_Witness ==
    /\ last.op = "process_file"
    /\ last.file_path = File_b
    /\ last.content = <<"\n", "\t">>
    /\ last.chunks = <<>>
    /\ ~last.chunked

\* C26: two chunks have the same fingerprint only if they have the same
\* file_path and the same content (the hash itself taken as injective on the
\* text it is given).
C26_FingerprintInjective ==
    last.op = "add_chunks" =>
        \A i, j \in DOMAIN last.chunks :
            _compute_hash(last.chunks[i].content, last.chunks[i].file_path)
                = _compute_hash(last.chunks[j].content, last.chunks[j].file_path)
            => /\ last.chunks[i].file_path = last.chunks[j].file_path
               /\ last.chunks[i].content = last.chunks[j].content

\* the contents of the chunks of the files that can be read, file after file
RECURSIVE ReadableContents(_, _)
ReadableContents(dsk, files) ==
    IF files = <<>> THEN <<>>
    ELSE LET f == dsk[Head(files)]
             chunks == IF f.kind = "file" /\ strip(f.content) # <<>>
                       THEN ChunksOfFile[Head(files)][f.content]
                       ELSE <<>>
         IN [i \in 1..Len(chunks) |-> chunks[i].content]
                \o ReadableContents(dsk, Tail(files))

\* the files among `files` that cannot be read
UnreadableFiles(dsk, files) ==
    {i \in 1..Len(files) : dsk[files[i]].kind = "unreadable"}

\* C27: when a file of the tree cannot be read, index still goes through
\* every other file: the chunks handed to add_chunks are those of all the
\* files that can be read, in one call, the file that failed gives none and
\* is counted among the skipped files.
C27_ReadFailureSkipped ==
    (last.op = "index" /\ UnreadableFiles(disk, find_files(disk, last.root)) # {}) =>
        /\ last.embedded = ReadableContents(disk, find_files(disk, last.root))
        /\ last.add_calls = IF last.embedded = <<>> THEN 0 ELSE 1
        /\ last.files_skipped
               >= Cardinality(UnreadableFiles(disk, find_files(disk, last.root)))
        /\ \A i \in DOMAIN last.embedded :
               \E r \in Range(Rows(db)) : r.content = last.embedded[i]

\* the first file of the tree could not be read and the chunks of the second
\* one were added
C27_Witness ==
    /\ last.op = "index"
    /\ last.root = Root_r
    /\ disk[File_a] = Unreadable
    /\ disk[File_b] = FileOf(TwoBlocks)
    /\ Len(last.embedded) = 2
    /\ last.add_calls = 1
    /\ last.files_processed = 1
    /\ last.files_skipped = 2

\* C28: find_files returns, sorted and each once, exactly the files below
\* the root that have a supported extension in either case and no directory
\* of the skip list between the root (not counted) and themselves.
C28_FindFilesExact ==
    last.op = "find_files" =>
        LET root == PathParts(last.root)
            \* the names of the directories from the root (exclusive) down
            \* to the file p
            Between(p) ==
                {PathParts(p)[i] : i \in (Len(root) + 1)..(Len(PathParts(p)) - 1)}
            \* the files the claim names
            wanted ==
                {p \in DOMAIN disk :
                    /\ disk[p].kind # "none"
                    /\ Len(PathParts(p)) > Len(root)
                    /\ SubSeq(PathParts(p), 1, Len(root)) = root
                    /\ lower(PathSuffix(p)) \in
                           {<<".", "c", "s">>, <<".", "m", "d">>,
                            <<".", "t", "x", "t">>}
                    /\ Between(p) \cap SKIP_DIRS = {}}
        IN /\ Range(last.files) = wanted
           /\ \A i, j \in DOMAIN last.files :
                  i < j => PathLess(last.files[i], last.files[j])

(***************************************************************************)
(* Several users of one collection.  remove_chunks_by_file is taken step   *)
(* by step (scan, drop, recreate) and so is add_chunks (scan, append),     *)
(* one step for each call of the engine; two other store objects on the    *)
(* same database are opened, add chunks, search and go away between these  *)
(* steps.  With `serialised` the mutating operations run one at a time     *)
(* behind one boundary.                                                    *)
(***************************************************************************)
Idle == "idle"
Read == "read"
Dropped == "dropped"

\* the scan of all records, and the filter that keeps the other files' rows
KeepOtherFiles(rows, file_path) ==
    LET OtherFile(r) == r.file_path # file_path
    IN SelectSeq(rows, OtherFile)

\* the collection is dropped
drop_table(dbv) == NoTable

\* the collection is created again from the rows that were kept; when a
\* collection of that name exists by then, the engine either refuses (the
\* collection stays as it is) or replaces it
create_table(dbv, records) ==
    IF dbv.present THEN {dbv, TableOf(records)} ELSE {TableOf(records)}

\* no boundary at all: a mutating operation starts at any time
MutationAllowed_NoBoundary(lst) == TRUE

\* one mutual-exclusion boundary for the mutating operations: while a
\* rebuild or an add_chunks holds it no other mutating operation starts
MutationAllowed(lst) ==
    \/ ~lst.serialised
    \/ /\ lst.pc = Idle
       /\ \A w \in Writers : lst.writers[w].pc # Scanned

\* what is kept over every operation: the position of the other store
\* objects and, while a rebuild runs, its position, its file, the rows it
\* has read and the records appended since
Carry(lst) ==
    IF lst.pc = Idle
    THEN [NoLast EXCEPT !.serialised = lst.serialised, !.writers = lst.writers]
    ELSE [NoLast EXCEPT !.pc = lst.pc, !.file_path = lst.file_path,
                        !.scanned = lst.scanned, !.appended = lst.appended,
                        !.serialised = lst.serialised,
                        !.writers = lst.writers]

\* a collection some batch has created
InitRebuild ==
    /\ \E chunks \in Batches :
          /\ BuildRecords(chunks) # <<>>
          /\ db = TableOf(BuildRecords(chunks))
    /\ table = Open
    /\ disk = [p \in FilePaths |-> NoFile]
    /\ \E s \in BOOLEAN : last = [NoLast EXCEPT !.serialised = s]

\* remove_chunks_by_file begins: all records are read
ScanTable ==
    /\ last.pc = Idle
    /\ MutationAllowed(last)
    /\ \E file_path \in ChunkPaths :
          last' = [Carry(last) EXCEPT !.op = "scan", !.pc = Read,
                                      !.file_path = file_path,
                                      !.scanned = Rows(db)]
    /\ UNCHANGED <<db, table, disk>>

DropTable ==
    /\ last.pc = Read
    /\ db' = drop_table(db)
    /\ last' = [Carry(last) EXCEPT !.op = "drop", !.pc = Dropped]
    /\ UNCHANGED <<table, disk>>

\* remove_chunks_by_file ends: the records that were appended since the scan
\* and belong to another file than the removed one have to be stored still
RecreateTable ==
    /\ last.pc = Dropped
    /\ LET kept == KeepOtherFiles(last.scanned, last.file_path)
       IN \E out \in create_table(db, kept) :
             /\ db' = out
             /\ last' = [Carry(last) EXCEPT
                            !.op = "remove_chunks_by_file", !.pc = Idle,
                            !.scanned = <<>>, !.appended = {},
                            !.ret = Len(last.scanned) - Len(kept),
                            !.lost = {r \in last.appended :
                                         /\ r.file_path # last.file_path
                                         /\ r \notin Range(Rows(out))}]
    /\ UNCHANGED <<table, disk>>

\* another store object is opened on the database as it is now
\* (VectorStore.__init__, _init_table)
ConcurrentOpen ==
    /\ \E w \in Writers :
          /\ last.writers[w].pc = Closed
          /\ w = "C" => last.writers["B"].pc # Closed
          /\ last' = [Carry(last) EXCEPT
                         !.op = "open",
                         !.writers[w] = [pc |-> Opened, table |-> InitTable(db),
                                         records |-> <<>>]]
    /\ UNCHANGED <<db, table, disk>>

\* a store object that is not inside add_chunks goes away with its process
ConcurrentClose ==
    /\ \E w \in Writers :
          /\ last.writers[w].pc = Opened
          /\ last' = [Carry(last) EXCEPT !.op = "close", !.writers[w] = NoWriter]
    /\ UNCHANGED <<db, table, disk>>

\* the records in flight: read as new by a store object and not appended yet
InFlight(lst) ==
    LET n(w) == Len(lst.writers[w].records)
    IN n("B") + n("C")

\* add_chunks of another store object, up to its first write. Without a
\* handle the collection is created, and with no new record nothing is
\* written: add_chunks returns. Otherwise the stored hashes have been read
\* (table.to_pandas()) and the new records wait for their append
ConcurrentAddScan ==
    /\ MutationAllowed(last)
    /\ \E w \in Writers, chunk \in Chunks :
          LET tbl == last.writers[w].table
              records == BuildRecords(<<chunk>>)
              new_records == NewRecords(ExistingHashes(db, tbl, NoError), records)
              out == add_chunks(db, tbl, <<chunk>>, NoError)
          IN /\ last.writers[w].pc = Opened
             /\ Len(Rows(db)) + InFlight(last) + Len(records) <= MaxRecords
             /\ IF tbl = None \/ new_records = <<>>
                THEN /\ db' = out.db
                     /\ last' = [Carry(last) EXCEPT
                                    !.op = "add_chunks", !.ret = out.ret,
                                    !.err = out.err,
                                    !.writers[w] = [pc |-> Opened,
                                                    table |-> out.table,
                                                    records |-> <<>>],
                                    !.appended =
                                        IF last.pc = Idle THEN @
                                        ELSE @ \cup (Range(Rows(out.db))
                                                         \ Range(Rows(db)))]
                ELSE /\ db' = db
                     /\ last' = [Carry(last) EXCEPT
                                    !.op = "add_chunks_scan",
                                    !.writers[w] = [pc |-> Scanned, table |-> tbl,
                                                    records |-> new_records]]
    /\ UNCHANGED <<table, disk>>

\* add_chunks of another store object ends: the records that were new at its
\* scan are appended (table.add(new_records)), whatever has been stored since
ConcurrentAddAppend ==
    /\ \E w \in Writers :
          LET out == AppendRecords(db, last.writers[w].table,
                                   last.writers[w].records, NoError)
          IN /\ last.writers[w].pc = Scanned
             /\ Len(Rows(out.db)) <= MaxRecords
             /\ db' = out.db
             /\ last' = [Carry(last) EXCEPT
                            !.op = "add_chunks", !.ret = out.ret,
                            !.err = out.err,
                            !.writers[w] = [pc |-> Opened, table |-> out.table,
                                            records |-> <<>>],
                            !.appended =
                                IF last.pc = Idle THEN @
                                ELSE @ \cup Range(last.writers[w].records)]
    /\ UNCHANGED <<table, disk>>

\* what the engine answers a scan through the handle tbl: through a handle
\* on a collection that was dropped the scan raises
StaleOutcomes(dbv, tbl) ==
    IF tbl # None /\ ~dbv.present THEN {EngineFailure, EngineValueError}
    ELSE {NoError}

\* another store object searches for the nearest record through the handle
\* it was opened with
ConcurrentSearch ==
    \E w \in Writers, query \in {<<"q">>}, top_k \in {1} :
        LET tbl == last.writers[w].table
        IN \E scanned \in Scans(db, tbl, query, top_k),
              engine \in StaleOutcomes(db, tbl) :
              LET out == StoreSearch(db, tbl, query, top_k, scanned, engine)
              IN /\ last.writers[w].pc = Opened
                 /\ last' = [Carry(last) EXCEPT
                                !.op = "search", !.err = out.err,
                                !.scans = out.scans]
                 /\ UNCHANGED <<db, table, disk>>

NextRebuild ==
    \/ ScanTable
    \/ DropTable
    \/ RecreateTable
    \/ ConcurrentOpen
    \/ ConcurrentClose
    \/ ConcurrentAddScan
    \/ ConcurrentAddAppend
    \/ ConcurrentSearch

SpecRebuild == InitRebuild /\ [][NextRebuild]_vars

\* a record appended between the scan and the rebuild is gone after it
LostAppend == last.op = "remove_chunks_by_file" /\ last.lost # {}

\* a search during the rebuild finds no collection: the store object was
\* opened after the drop and has no handle, or its handle is on the
\* collection that was dropped
SearchSawAbsent ==
    last.op = "search" /\ last.pc = Dropped /\ ~db.present /\ last.err # NoError

\* C30, as the spec states it: with the mutating operations serialised,
\* neither a lost append nor a search that finds the collection absent
\* during the rebuild is reachable.
C30_SerialisedExcludesBoth ==
    last.serialised => ~LostAppend /\ ~SearchSawAbsent

\* C30: with the mutating operations serialised behind one boundary, no
\* record appended by another writer is lost by a rebuild; without the
\* boundary such a loss is reachable.
C30_SerialisedKeepsAppends == LostAppend => ~last.serialised

\* a rebuild has ended and a record another writer appended since the scan
\* is not stored any more
C30_Witness ==
    /\ LostAppend
    /\ ~last.serialised
    /\ last.ret >= 1

\* C31: add_chunks without update_existing on a present store embeds only the
\* chunks whose fingerprint is not stored yet: the embedding function is called
\* as many times as there are records to insert.
C31_NoReembedding ==
    [][(last'.op = "add_chunks" /\ ~last'.update_existing /\ table # None)
          => Len(last'.embedded) =
                 Len(NewRecords(ExistingHashes(db, table, last'.engine),
                                BuildRecords(last'.chunks)))]_vars

(***************************************************************************)
(* add_chunks with update_existing, batch after batch on one store.        *)
(***************************************************************************)
AddUpdating ==
    \E chunks \in Batches :
        LET out == add_chunks_update_existing(db, table, chunks, TRUE, NoError)
        IN /\ Len(Rows(out.db)) <= MaxRecords
           /\ db' = out.db
           /\ table' = out.table
           /\ last' = [NoLast EXCEPT !.op = "add_chunks", !.chunks = chunks,
                                      !.update_existing = TRUE,
                                      !.ret = out.ret, !.err = out.err,
                                      !.purged = out.purged,
                                      !.purged_rows = out.purged_rows]
           /\ UNCHANGED disk

NextPurge == AddUpdating

SpecPurge == Init /\ [][NextPurge]_vars

(***************************************************************************)
(* The store on an engine that can fail: add_chunks, get_stats and clear   *)
(* by one store object, and a second store object that drops the           *)
(* collection behind its back.                                             *)
(***************************************************************************)
\* the conditions of the engine a call of the store can meet
StoreOutcomes == {NoError, EngineFailure, EngineValueError, EngineWriteFailure}

\* add_chunks(chunks) with one chunk, whatever the engine does
AddOnEngine ==
    \E chunk \in Chunks, engine \in StoreOutcomes :
        LET out == add_chunks(db, table, <<chunk>>, engine)
        IN /\ Len(Rows(out.db)) <= MaxRecords
           /\ db' = out.db
           /\ table' = out.table
           /\ last' = [NoLast EXCEPT !.op = "add_chunks", !.chunks = <<chunk>>,
                                      !.engine = engine,
                                      !.ret = out.ret, !.err = out.err,
                                      !.embedded = out.embedded]
           /\ UNCHANGED disk

StatsOnEngine ==
    \E engine \in StoreOutcomes :
        /\ last' = [NoLast EXCEPT !.op = "get_stats", !.engine = engine,
                                   !.stats = get_stats(db, table, engine)]
        /\ UNCHANGED <<db, table, disk>>

\* another store object on the same database clears it: the collection is
\* dropped and this store object keeps its handle
ClearedElsewhere ==
    /\ db.present
    /\ db' = clear(db, InitTable(db)).db
    /\ last' = [NoLast EXCEPT !.op = "cleared_elsewhere"]
    /\ UNCHANGED <<table, disk>>

NextEngine ==
    \/ AddOnEngine
    \/ StatsOnEngine
    \/ Clear
    \/ ClearedElsewhere

SpecEngine == Init /\ [][NextEngine]_vars

\* C32: an add_chunks call with update_existing purges every file of the batch
\* once, on its first occurrence and before anything is inserted: the rows of
\* other files stay, the rows the batch's files had before are gone, and
\* when several well-formed chunks of the batch are of one file, each of
\* them is stored after the call with its file_path and content.
C32_PurgeOnceBeforeInsert ==
    [][(last'.op = "add_chunks" /\ last'.update_existing /\ last'.err = NoError)
          => LET valid == SelectSeq(last'.chunks, ValidChunk)
                 files == {valid[i].file_path : i \in DOMAIN valid}
                 OfOtherFile(r) == r.file_path \notin files
                 OfBatchFile(r) == r.file_path \in files
                 kept == SelectSeq(Rows(db), OfOtherFile)
             IN /\ Range(last'.purged) = files
                /\ Len(last'.purged) = Cardinality(files)
                /\ last'.purged_rows = Len(Rows(db)) - Len(kept)
                /\ SelectSeq(Rows(db'), OfOtherFile) = kept
                /\ \A r \in Range(SelectSeq(Rows(db'), OfBatchFile)) :
                       \E i \in DOMAIN valid :
                           /\ valid[i].file_path = r.file_path
                           /\ valid[i].content = r.content
                /\ \A i, j \in DOMAIN valid :
                       (i # j /\ valid[i].file_path = valid[j].file_path) =>
                           \E r \in Range(Rows(db')) :
                               /\ r.file_path = valid[i].file_path
                               /\ r.content = valid[i].content]_vars

\* the choices of the k nearest rows, as row numbers, nearest first
NearestCandidates(rows, qv, k) ==
    LET n == IF k < Len(rows) THEN k ELSE Len(rows)
        D(i) == Distance(rows[i].vector, qv)
    IN {s \in [1..n -> 1..Len(rows)] :
           /\ \A i, j \in 1..n : i < j => (s[i] # s[j] /\ D(s[i]) <= D(s[j]))
           /\ \A i \in 1..n, r \in 1..Len(rows) :
                  r \notin {s[j] : j \in 1..n} => D(s[i]) <= D(r)}

\* C33: with filter_path set, a search that succeeds returns exactly those of
\* the top_k nearest stored records whose file_path starts with filter_path,
\* in the order of the candidates; no further candidate replaces a dropped one.
C33_PostFilter ==
    (last.op = "search" /\ last.err = NoError /\ last.filter_path # <<>>) =>
        LET qv == _generate_embedding(last.query)
            rows == Rows(db)
        IN \E s \in NearestCandidates(rows, qv, last.top_k) :
              LET Passes(i) == startswith(rows[i].file_path, last.filter_path)
                  passed == SelectSeq(s, Passes)
              IN /\ Len(last.matches) = Len(passed)
                 /\ \A i \in 1..Len(passed) :
                        /\ last.matches[i].file_path = rows[passed[i]].file_path
                        /\ last.matches[i].content = rows[passed[i]].content
                        /\ last.matches[i].score = Distance(rows[passed[i]].vector, qv)

\* a filtered search returned fewer than top_k results although more stored
\* records match the filter than it returned
C33_Witness ==
    /\ last.op = "search" /\ last.err = NoError
    /\ last.filter_path # <<>>
    /\ Len(last.matches) < last.top_k
    /\ \E r \in Range(Rows(db)) :
          /\ startswith(r.file_path, last.filter_path)
          /\ \A i \in DOMAIN last.matches : last.matches[i].content # r.content
    /\ \E r \in Range(Rows(db)) : ~startswith(r.file_path, last.filter_path)

\* C34: in one index() run every remove_chunks_by_file call for a deleted
\* file comes before the add_chunks call; add_chunks is called at most once,
\* with update_existing and the chunks of all the files in one batch, and it
\* is not called when no file gave a chunk.
C34_IndexCallOrder ==
    last.op = "index" =>
        LET c == last.store_calls
            adds == {i \in DOMAIN c : c[i].op = "add_chunks"}
            all_chunks == ReadableContents(disk, find_files(disk, last.root))
        IN /\ \A i, j \in DOMAIN c :
                  (i < j /\ c[j].op = "remove_chunks_by_file")
                      => c[i].op = "remove_chunks_by_file"
           /\ [i \in 1..Len(last.removed) |-> c[i].file_path] = last.removed
           /\ Cardinality(adds) <= 1
           /\ (adds = {}) <=> (all_chunks = <<>>)
           /\ \A i \in adds : c[i].update_existing /\ c[i].chunks = all_chunks

\* an index() run removed the rows of a deleted file and then added the
\* two chunks of the file that is left in one call
C34_Witness ==
    /\ last.op = "index"
    /\ Len(last.store_calls) = 2
    /\ last.store_calls[1].op = "remove_chunks_by_file"
    /\ last.store_calls[2].op = "add_chunks"
    /\ Len(last.store_calls[2].chunks) = 2
    /\ last.files_processed = 1

\* C35: remove_chunks_by_file on a present store leaves it present, also when
\* it removed every record: afterwards a search with a non-empty query does
\* not raise the not-indexed error and get_stats counts the records left.
C35_RemoveKeepsPresent ==
    [][(last'.op = "remove_chunks_by_file" /\ table # None) =>
          /\ table' # None
          /\ db'.present
          /\ \A query \in Queries \ {<<>>} :
                 \A scanned \in Scans(db', table', query, 1) :
                     search(db', table', query, 1, <<>>, scanned).err = NoError
          /\ get_stats(db', table', NoError).total_chunks = Len(Rows(db'))
          /\ "unique_files" \in DOMAIN get_stats(db', table', NoError)]_vars

\* the records of the removed file were the only records of the collection
C35_Witness ==
    /\ last.op = "remove_chunks_by_file"
    /\ last.ret >= 1
    /\ Rows(db) = <<>>
    /\ db.present
    /\ table = Open

\* C36: after index() every enumerated file is counted once: as processed
\* when it gave at least one chunk, as skipped otherwise, so that
\* files_processed + files_skipped is the number of files found.
C36_FileAccounting ==
    last.op = "index" =>
        LET files == find_files(disk, last.root)
            gave == {i \in 1..Len(files) :
                        ReadableContents(disk, <<files[i]>>) # <<>>}
        IN /\ last.files_processed = Cardinality(gave)
           /\ last.files_skipped = Len(files) - Cardinality(gave)
           /\ last.files_processed + last.files_skipped = Len(files)

\* C37: every chunk chunk_code returns for source text of N lines has
\* 1 <= start_line <= end_line <= N, the chunk flushed at the end of a text
\* whose braces never close included, and its content is the stripped text
\* of the lines start_line..end_line.
C37_LineRangeBounds ==
    last.op = "chunk_code" =>
        LET lines == split(last.content, "\n")
        IN \A i \in DOMAIN last.chunks :
               LET c == last.chunks[i]
               IN /\ 1 <= c.start_line
                  /\ c.start_line <= c.end_line
                  /\ c.end_line <= Len(lines)
                  /\ c.content = strip(join(SubSeq(lines, c.start_line, c.end_line),
                                            <<"\n">>))

\* the paragraphs of the text are separated by single blank lines: no line
\* break opens or closes the text and no two blank lines follow each other
SingleBlankLines(content) ==
    /\ content # <<>>
    /\ Head(content) # "\n"
    /\ content[Len(content)] # "\n"
    /\ \A i \in 1..(Len(content) - 2) :
           ~(content[i] = "\n" /\ content[i + 1] = "\n" /\ content[i + 2] = "\n")

\* C38: for a prose file whose paragraphs are separated by single blank
\* lines, every chunk's start_line and end_line are the real first and last
\* line of its paragraph: the lines start_line..end_line of the file are the
\* chunk's content, for the first paragraph and for the later ones.
C38_ProseLinesMatchFile ==
    (last.op = "chunk_code" /\ SingleBlankLines(last.content)) =>
        LET lines == split(last.content, "\n")
        IN \A i \in DOMAIN last.chunks :
               LET c == last.chunks[i]
               IN /\ 1 <= c.start_line
                  /\ c.end_line <= Len(lines)
                  /\ c.content = strip(join(SubSeq(lines, c.start_line, c.end_line),
                                            <<"\n">>))

\* C39: a reindex that fails because the directory does not exist or is not a
\* directory reports success = False with an error message and leaves the
\* stored records as they were, with clear and without.
C39_FailedReindexKeepsIndex ==
    [][(last'.op = "reindex_codebase" /\ ~last'.result.success) =>
          /\ last'.result.error # NoError
          /\ db' = db]_vars

\* C40: in one server process, a search_codebase with a non-empty query that
\* follows a reindex_codebase which succeeded and left at least one stored
\* chunk is not answered with the not-indexed error, and what it returns are
\* records of the collection as the reindex left it.
C40_SearchSeesReindex ==
    [][(/\ last.op = "reindex_codebase"
        /\ last.result.success
        /\ Rows(db) # <<>>
        /\ last'.op = "search_codebase"
        /\ CleanQuery(last'.query) # <<>>)
          => /\ last'.err # NotIndexedError
             /\ \A i \in DOMAIN last'.matches :
                    \E r \in Range(Rows(db)) :
                        r.content = last'.matches[i].content]_vars

====
